---- MODULE Spec2Model ----
(***************************************************************************)
(* The job handoff between network callers and Blender's main thread:      *)
(*   - ResultQueue (mcp/transport/result_queue.py)                         *)
(*   - ServerManager.execute_on_main_thread (mcp/transport/http_server.py) *)
(*   - the pending set and execute_resource                                *)
(*     (mcp/resources/_internal/executor.py)                               *)
(*   - the main thread running bpy.app.timers callbacks one at a time.     *)
(*                                                                         *)
(* Threads.  Tool callers run execute_on_main_thread on worker threads     *)
(* (anyio.to_thread), so every ResultQueue method call, each under the     *)
(* queue's lock, is a step of its own.  Resource callers are coroutines of *)
(* the one server event loop: the code between two awaits of a coroutine   *)
(* runs without another coroutine or loop callback in between.  The main   *)
(* thread takes timer callbacks in the order they were registered.         *)
(***************************************************************************)
EXTENDS Integers, Sequences, FiniteSets

\* Jobs created in one run; a job id stands for the uuid4 of one call, and
\* ids are issued in increasing order.
MaxJobs == 3

\* utils/config.py: MAX_PENDING_OPERATIONS = 50, scaled down so that the
\* pending set overflows within MaxJobs jobs.
MAX_PENDING_OPERATIONS == 2

JobIds == 1..MaxJobs

\* Job ids used by direct calls of the ResultQueue and pending-set operations
MaxApiIds == 2

ApiIds == 1..MaxApiIds

\* SSE sessions opened in one run; a session id stands for the uuid4 of one
\* GET /sse, and ids are issued in increasing order.
MaxSessions == 2

Sessions == 1..MaxSessions

\* utils/config.py: SSE_QUEUE_SIZE = 500, scaled down so that a queue overflows
\* within MaxMsgs responses.
SSE_QUEUE_SIZE == 2

\* responses built in one run
MaxMsgs == 4

\* asgi.py: SSE_SESSION_TIMEOUT = 1800.0 seconds, in clock ticks
SSE_SESSION_TIMEOUT == 1

\* how far the clock runs
MaxTime == 2

\* messages POSTed in one run
MaxReqs == 2

ReqIds == 1..MaxReqs

VARIABLES
    nextId,     \* the next job id to be issued (uuid.uuid4())
    pc,         \* each caller's position in execute_on_main_thread / execute_resource
    out,        \* what each call returned or raised
    rq,         \* ResultQueue._queue: job id -> JobEntry
    pending,    \* _pending_operations, an OrderedDict, as the sequence of its items
    posted,     \* event.set callbacks handed to the loop by call_soon_threadsafe
    ev,         \* the asyncio completion events that are set
    timers,     \* bpy.app.timers: the callbacks registered and not yet run
    hostPc,     \* the main thread's position inside the callback it is running
    hostJob,    \* the job of that callback
    hostResult, \* the local variable `result` of execute_in_main_thread
    wm,         \* the window manager's mcp_resource_* properties of each job
    work,       \* what the operator's unit of work did for each job, if it ran
    evicted,    \* the jobs _register_pending cancelled and removed (its warning log)
    call,       \* the last ResultQueue / pending-set call made directly, with what it returned
    before,     \* _pending_operations as the execute_resource being scheduled found it
    sse_queues, \* app.state.sse_queues: the session ids that are keys of the map
    sseq,       \* the SSEQueue object created for each session
    gen,        \* each event_generator's position
    stream,     \* what each event_generator has yielded to its client
    now,        \* time.time(), in units of the session timeout's scale
    nextMsg,    \* the next response to be built; responses are numbered as they are built
    nextSession,\* the next session id to be issued (uuid.uuid4())
    qcall,      \* the last SSEQueue method called directly, with what it returned
    req,        \* the POSTed messages: their fields, position and HTTP response
    _server_loop,       \* ServerManager._server_loop (with _server_thread, _server_task, _uvicorn_server)
    _shutting_down,     \* ServerManager._shutting_down
    _shutdown_complete, \* ServerManager._shutdown_complete: whether the Event is set
    _mcp_instance,      \* ServerManager._mcp_instance: None, or an MCPServer with synced caches
    shutdown_thread,    \* the position of the graceful_shutdown thread
    server_thread,      \* the "MCP-Server" thread that runs the event loop
    clear_flag,         \* whether the timer clear_flag is registered and has not run
    start_op,           \* BMCP_OT_start_mcp_server.execute: its position and what it returned
    lcall,              \* the last start() or stop() call, with what it returned
    config,             \* the configuration the ASGI app was created with
    http,               \* the last HTTP request the middleware stack handled, and its answer
    waiter,             \* a caller of the public wait_shutdown
    bridge              \* the stdio bridge: forward_to_blender's position and counters

\* the job handoff
jobVars == <<nextId, pc, out, rq, pending, posted, ev, timers, hostPc, hostJob,
             hostResult, wm, work, evicted, call, before>>

\* the HTTP transport
netVars == <<sse_queues, sseq, gen, stream, now, nextMsg, nextSession, qcall, req>>

\* the server's lifecycle, its middleware and the stdio bridge
srvVars == <<_server_loop, _shutting_down, _shutdown_complete, _mcp_instance,
             shutdown_thread, server_thread, clear_flag, start_op, lcall, config, http,
             waiter, bridge>>

vars == <<nextId, pc, out, rq, pending, posted, ev, timers, hostPc, hostJob,
          hostResult, wm, work, evicted, call, before,
          sse_queues, sseq, gen, stream, now, nextMsg, nextSession, qcall, req,
          _server_loop, _shutting_down, _shutdown_complete, _mcp_instance,
          shutdown_thread, server_thread, clear_flag, start_op, lcall, config, http,
          waiter, bridge>>

-----------------------------------------------------------------------------
(* Values *)

None == [status |-> "None", payload |-> 0]

\* run_code.py: result_dict / error_dict, and get_resources.py: the result or
\* error string.  The payload stands for the content, which is the job's own.
OpSuccess(j) == [status |-> "success", payload |-> j]
OpError(j) == [status |-> "error", payload |-> j]

NoOutcome == [kind |-> "none", val |-> None]
Outcome(k, v) == [kind |-> k, val |-> v]

\* JobEntry(): status "pending", result None, error None, a new Event
JobEntry == [status |-> "pending", result |-> None, error |-> None, event |-> FALSE]

\* the exception bpy.app.timers.register raised, and the RuntimeError("Failed to
\* schedule execution on Blender's main thread: ...") that wraps it
TimerException == [status |-> "timers.register raised", payload |-> 0]
FailedToSchedule == [status |-> "Failed to schedule execution", payload |-> 0]

NoProps == [data |-> None, error |-> None, done |-> FALSE]

NoCall == [op |-> "none", id |-> 0, ret |-> "none"]

-----------------------------------------------------------------------------
(* ResultQueue: each method gives the _queue it leaves and what it returns *)

MapPut(q, j, e) == [k \in (DOMAIN q) \cup {j} |-> IF k = j THEN e ELSE q[k]]
MapDel(q, j) == [k \in (DOMAIN q) \ {j} |-> q[k]]

Ret(q, r) == [queue |-> q, ret |-> r]

\* self._queue[job_id] = JobEntry(); return entry.event
register(q, j) == Ret(MapPut(q, j, JobEntry), "event")

is_cancelled(q, j) == IF j \notin DOMAIN q THEN TRUE ELSE q[j].status = "cancelled"

set_success(q, j, result) ==
    IF j \notin DOMAIN q THEN Ret(q, "False")
    ELSE Ret([q EXCEPT ![j].status = "success", ![j].result = result, ![j].event = TRUE],
             "True")

set_error(q, j, error) ==
    IF j \notin DOMAIN q THEN Ret(q, "False")
    ELSE Ret([q EXCEPT ![j].status = "error", ![j].error = error, ![j].event = TRUE],
             "True")

mark_cancelled(q, j) ==
    IF j \notin DOMAIN q THEN Ret(q, "False")
    ELSE Ret([q EXCEPT ![j].status = "cancelled"], "True")

\* a plausible slip: the entry read is not the caller's own
get_result_first(q, j) ==
    IF j \notin DOMAIN q
    THEN [raised |-> TRUE, status |-> "KeyError", result |-> None, error |-> None]
    ELSE LET k == CHOOSE k \in DOMAIN q : \A m \in DOMAIN q : k <= m
         IN [raised |-> FALSE, status |-> q[k].status, result |-> q[k].result,
             error |-> q[k].error]

\* (status, result, error), or KeyError
get_result(q, j) ==
    IF j \notin DOMAIN q
    THEN [raised |-> TRUE, status |-> "KeyError", result |-> None, error |-> None]
    ELSE [raised |-> FALSE, status |-> q[j].status, result |-> q[j].result,
          error |-> q[j].error]

\* a plausible slip: del self._queue[job_id] without the membership test
cleanup_NoCheck(q, j) ==
    IF j \in DOMAIN q THEN Ret(MapDel(q, j), "True") ELSE Ret(q, "KeyError")

cleanup(q, j) ==
    IF j \in DOMAIN q THEN Ret(MapDel(q, j), "True") ELSE Ret(q, "False")

-----------------------------------------------------------------------------
(* The pending set (executor.py) *)

PendingIds(p) == {p[i].id : i \in 1..Len(p)}

PendingEntry(j) == [id |-> j, cancelled |-> FALSE]

\* a plausible slip: > for >=
IsFull_OffByOne(p) == Len(p) > MAX_PENDING_OPERATIONS

\* len(_pending_operations) >= MAX_PENDING_OPERATIONS
IsFull(p) == Len(p) >= MAX_PENDING_OPERATIONS

\* a plausible slip: the last item for the first
OldestId_Newest(p) == p[Len(p)].id

\* next(iter(_pending_operations.items())): the first item of the OrderedDict
OldestId(p) == Head(p).id

\* del _pending_operations[job_id]
OdDel(p, j) == SelectSeq(p, LAMBDA e : e.id # j)

\* _pending_operations[job_id] = {...}: a new key goes last, a key already
\* present keeps its place
OdPut(p, j, e) ==
    IF j \in PendingIds(p)
    THEN [i \in 1..Len(p) |-> IF p[i].id = j THEN e ELSE p[i]]
    ELSE Append(p, e)

\* the set after _register_pending(job_id, event, loop)
_register_pending(p, j) ==
    OdPut(IF IsFull(p) THEN OdDel(p, OldestId(p)) ELSE p, j, PendingEntry(j))

\* a plausible slip: the entry is left in the set
_unregister_pending_Keep(p, j) == [pending |-> p, ret |-> "None"]

\* _unregister_pending(job_id): the set it leaves; it returns None
_unregister_pending(p, j) ==
    IF j \in PendingIds(p) THEN [pending |-> OdDel(p, j), ret |-> "None"]
    ELSE [pending |-> p, ret |-> "None"]

\* _is_cancelled(job_id): the entry is gone, or is marked cancelled
_is_cancelled(p, j) ==
    IF j \notin PendingIds(p) THEN TRUE
    ELSE \E i \in 1..Len(p) : p[i].id = j /\ p[i].cancelled

\* bpy.app.timers.register(fn, first_interval=0.0); the host may refuse it
TimerRegister(ts, fn, j, ok) == IF ok THEN Append(ts, [fn |-> fn, job |-> j]) ELSE ts

\* _schedule_property_cleanup_for_job(job_id): a refused timer is only logged
_schedule_property_cleanup_for_job(ts, j, ok) == TimerRegister(ts, "cleanup", j, ok)

\* the RuntimeError of execute_resource for a cancelled operation names the capacity
CancelledError == Outcome("cancelled", [status |-> "max", payload |-> MAX_PENDING_OPERATIONS])

-----------------------------------------------------------------------------
(* SSEQueue (asgi.py): each method gives the object it leaves and what it returns *)

\* a JSON-RPC response on a queue or a stream; responses are numbered as built
Msg(n) == [kind |-> "message", val |-> n]

\* the "warning" event of get_drop_notification: type messages_dropped, count
Warning(count) == [kind |-> "warning", val |-> count]

\* None, True and False as return values
NoMessage == [kind |-> "None", val |-> 0]
True == [kind |-> "bool", val |-> 1]
False == [kind |-> "bool", val |-> 0]

QRet(q, r) == [q |-> q, ret |-> r]

\* SSEQueue(messages=deque(maxlen=SSE_QUEUE_SIZE)) created at time t
SSEQueue(t) ==
    [messages |-> <<>>, dropped_count |-> 0, last_drop_notified |-> TRUE,
     last_activity |-> t, event |-> FALSE]

\* a plausible slip: a bounded deque that discards the new item, not the oldest
DequeAppend_KeepOld(ms, m) == IF Len(ms) >= SSE_QUEUE_SIZE THEN ms ELSE Append(ms, m)

\* deque.append on a deque with maxlen: a full deque discards its leftmost item
DequeAppend(ms, m) ==
    IF Len(ms) >= SSE_QUEUE_SIZE THEN Append(Tail(ms), m) ELSE Append(ms, m)

\* a plausible slip: the consumer is not signalled
append_NoSignal(q, m, t) ==
    IF Len(q.messages) >= SSE_QUEUE_SIZE
    THEN QRet([q EXCEPT !.last_activity = t,
                        !.dropped_count = @ + 1,
                        !.last_drop_notified = FALSE,
                        !.messages = DequeAppend(@, m)],
              False)
    ELSE QRet([q EXCEPT !.last_activity = t,
                        !.messages = DequeAppend(@, m)],
              True)

\* SSEQueue.append(message) at time t
append(q, m, t) ==
    IF Len(q.messages) >= SSE_QUEUE_SIZE
    THEN QRet([q EXCEPT !.last_activity = t,
                        !.dropped_count = @ + 1,
                        !.last_drop_notified = FALSE,
                        !.messages = DequeAppend(@, m),
                        !.event = TRUE],
              False)
    ELSE QRet([q EXCEPT !.last_activity = t,
                        !.messages = DequeAppend(@, m),
                        !.event = TRUE],
              True)

\* SSEQueue.popleft()
popleft(q) ==
    IF q.messages # <<>>
    THEN QRet([q EXCEPT !.messages = Tail(@)], Head(q.messages))
    ELSE QRet(q, NoMessage)

\* a plausible slip: the counter is not reset once it has been reported
get_drop_notification_NoReset(q) ==
    IF ~q.last_drop_notified /\ q.dropped_count > 0
    THEN QRet([q EXCEPT !.last_drop_notified = TRUE], Warning(q.dropped_count))
    ELSE QRet(q, NoMessage)

\* SSEQueue.get_drop_notification()
get_drop_notification(q) ==
    IF ~q.last_drop_notified /\ q.dropped_count > 0
    THEN QRet([q EXCEPT !.last_drop_notified = TRUE, !.dropped_count = 0],
              Warning(q.dropped_count))
    ELSE QRet(q, NoMessage)

\* what a client has been sent on its stream: the responses in order, the sum
\* of the counts of its warning events, and the kind of the last event
NoStream == [sent |-> <<>>, dropped |-> 0, last |-> "none"]

Yield(st, e) ==
    IF e.kind = "message" THEN [st EXCEPT !.sent = Append(@, e.val), !.last = "message"]
    ELSE IF e.kind = "warning" THEN [st EXCEPT !.dropped = @ + e.val, !.last = "warning"]
    ELSE [st EXCEPT !.last = e.kind]

Ping == [kind |-> "ping", val |-> 0]
Endpoint == [kind |-> "endpoint", val |-> 0]

NoQCall == [op |-> "none", ret |-> NoMessage]

NoBody == [kind |-> "none", code |-> 0, isError |-> FALSE, id |-> 0]

NoResponse == [status |-> 0, body |-> NoBody]

\* a slot for a message not yet POSTed
NoReq ==
    [pc |-> "new", surface |-> "none", method |-> "None", name |-> "None",
     id |-> 0, token |-> 0, exec |-> "none", http |-> NoResponse, queued |-> NoBody,
     built |-> 0]

InitTransport ==
    /\ sse_queues = {}
    /\ sseq = [s \in Sessions |-> SSEQueue(0)]
    /\ gen = [s \in Sessions |-> "none"]
    /\ stream = [s \in Sessions |-> NoStream]
    /\ now = 0
    /\ nextMsg = 1
    /\ nextSession = 1
    /\ qcall = NoQCall
    /\ req = [r \in ReqIds |-> NoReq]

-----------------------------------------------------------------------------
(* ServerManager.__init__, and the values of the server's variables         *)

\* what start() or stop() returned, and on which line it returned
NoLCall == [op |-> "none", ret |-> FALSE, why |-> "none"]
LCall(o, r, w) == [op |-> o, ret |-> r, why |-> w]

\* the start operator: not running
NoOp == [pc |-> "idle", waited |-> FALSE, ret |-> "none", why |-> "none"]

\* create_asgi_app's defaults
NoConfig == [auth_required |-> FALSE, auth_token |-> "", network_access |-> FALSE]

NoAnswer == [status |-> 0, code |-> 0, retry_after |-> 0, auth |-> FALSE, dispatched |-> FALSE]

NoRequest == [route |-> "none", header |-> "none", query |-> "none"]

\* the application has handled no request
NoHttp == [request |-> NoRequest, during |-> FALSE, response |-> NoAnswer]

NoWaiter == [pc |-> "idle", timeout |-> "None", given |-> FALSE]

\* what one conn.request ... response.read() gave: nothing yet
NoSend == [raised |-> "None", status |-> 0, payload |-> "none", delivered |-> FALSE]

\* forward_to_blender is not running; _connection_pool._conn is None
NoBridge ==
    [pc |-> "idle", id |-> 0, retries |-> 0, attempt |-> 0, conn |-> "None",
     sends |-> 0, waits |-> <<>>, last_error |-> "None", outcome |-> NoSend,
     ret |-> NoBody, received |-> 0, stdout |-> NoBody]

InitServer ==
    /\ _server_loop = "None"
    /\ _shutting_down = FALSE
    /\ _shutdown_complete = FALSE
    /\ _mcp_instance = "None"
    /\ shutdown_thread = "none"
    /\ server_thread = "none"
    /\ clear_flag = FALSE
    /\ start_op = NoOp
    /\ lcall = NoLCall
    /\ config = NoConfig
    /\ http = NoHttp
    /\ waiter = NoWaiter
    /\ bridge = NoBridge

-----------------------------------------------------------------------------
InitJobs ==
    /\ nextId = 1
    /\ pc = [j \in JobIds |-> "idle"]
    /\ out = [j \in JobIds |-> NoOutcome]
    /\ rq = [j \in {} |-> JobEntry]
    /\ pending = <<>>
    /\ posted = {}
    /\ ev = {}
    /\ timers = <<>>
    /\ hostPc = "idle"
    /\ hostJob = 0
    /\ hostResult = None
    /\ wm = [j \in JobIds |-> NoProps]
    /\ work = [j \in JobIds |-> None]
    /\ evicted = {}
    /\ call = NoCall
    /\ before = <<>>

Init == InitJobs /\ InitTransport /\ InitServer

-----------------------------------------------------------------------------
(* ServerManager.execute_on_main_thread, on a worker thread *)

\* job_id = str(uuid.uuid4()); event = self._result_queue.register(job_id)
ToolRegister(j) ==
    /\ j = nextId
    /\ pc[j] = "idle"
    /\ nextId' = nextId + 1
    /\ rq' = register(rq, j).queue
    /\ pc' = [pc EXCEPT ![j] = "t_sched"]
    /\ UNCHANGED <<out, pending, posted, ev, timers, hostPc, hostJob, hostResult,
                   wm, work, evicted, call, before, netVars, srvVars>>

\* a plausible slip: a refused timer is not caught, and the caller goes on to wait
ToolSchedule_NoCatch(j) ==
    /\ pc[j] = "t_sched"
    /\ \E ok \in BOOLEAN :
         timers' = TimerRegister(timers, "execute_in_main_thread", j, ok)
    /\ pc' = [pc EXCEPT ![j] = "t_wait"]
    /\ UNCHANGED <<nextId, out, rq, pending, posted, ev, hostPc, hostJob, hostResult,
                   wm, work, evicted, call, before, netVars, srvVars>>

\* bpy.app.timers.register(execute_in_main_thread); on an exception: cleanup
\* and RuntimeError("Failed to schedule execution ...")
ToolSchedule(j) ==
    /\ pc[j] = "t_sched"
    /\ \E ok \in BOOLEAN :
        /\ timers' = TimerRegister(timers, "execute_in_main_thread", j, ok)
        /\ IF ok
           THEN /\ pc' = [pc EXCEPT ![j] = "t_wait"]
                /\ UNCHANGED <<rq, out>>
           ELSE /\ rq' = cleanup(rq, j).queue
                /\ out' = [out EXCEPT ![j] = Outcome("schedule_failed", FailedToSchedule)]
                /\ pc' = [pc EXCEPT ![j] = "done"]
    /\ UNCHANGED <<nextId, pending, posted, ev, hostPc, hostJob, hostResult,
                   wm, work, evicted, call, before, netVars, srvVars>>

\* the threading.Event register() returned to this caller
EventIsSet(j) == j \in DOMAIN rq /\ rq[j].event

\* completed = event.wait(timeout=TOOL_EXECUTION_TIMEOUT) returns True
ToolWaitCompleted(j) ==
    /\ pc[j] = "t_wait"
    /\ EventIsSet(j)
    /\ pc' = [pc EXCEPT ![j] = "t_get"]
    /\ UNCHANGED <<nextId, out, rq, pending, posted, ev, timers, hostPc, hostJob,
                   hostResult, wm, work, evicted, call, before, netVars, srvVars>>

\* ... returns False: the timeout passed with the event not set
ToolWaitTimeout(j) ==
    /\ pc[j] = "t_wait"
    /\ ~EventIsSet(j)
    /\ pc' = [pc EXCEPT ![j] = "t_timedout"]
    /\ UNCHANGED <<nextId, out, rq, pending, posted, ev, timers, hostPc, hostJob,
                   hostResult, wm, work, evicted, call, before, netVars, srvVars>>

\* if not completed: mark_cancelled(job_id); raise TimeoutError
ToolMarkCancelled(j) ==
    /\ pc[j] = "t_timedout"
    /\ rq' = mark_cancelled(rq, j).queue
    /\ out' = [out EXCEPT ![j] = Outcome("timeout", None)]
    /\ pc' = [pc EXCEPT ![j] = "t_finally"]
    /\ UNCHANGED <<nextId, pending, posted, ev, timers, hostPc, hostJob,
                   hostResult, wm, work, evicted, call, before, netVars, srvVars>>

\* status, result, error = get_result(job_id); return result or raise
\* RuntimeError(error); KeyError becomes RuntimeError("... unexpectedly removed")
ToolReturn(r) ==
    IF r.raised THEN Outcome("removed", None)
    ELSE IF r.status = "success" THEN Outcome("success", r.result)
    ELSE Outcome("error", r.error)

ToolGetResult(j) ==
    /\ pc[j] = "t_get"
    /\ out' = [out EXCEPT ![j] = ToolReturn(get_result(rq, j))]
    /\ pc' = [pc EXCEPT ![j] = "t_finally"]
    /\ UNCHANGED <<nextId, rq, pending, posted, ev, timers, hostPc, hostJob,
                   hostResult, wm, work, evicted, call, before, netVars, srvVars>>

\* finally: self._result_queue.cleanup(job_id)
ToolFinally(j) ==
    /\ pc[j] = "t_finally"
    /\ rq' = cleanup(rq, j).queue
    /\ pc' = [pc EXCEPT ![j] = "done"]
    /\ UNCHANGED <<nextId, out, pending, posted, ev, timers, hostPc, hostJob,
                   hostResult, wm, work, evicted, call, before, netVars, srvVars>>

-----------------------------------------------------------------------------
(* execute_resource, a coroutine of the server's event loop *)

\* No coroutine is between _register_pending and its await: the loop runs one
\* callback or coroutine step at a time.
LoopFree == \A k \in JobIds : pc[k] # "r_sched"

\* job_id = str(uuid.uuid4()); _register_pending(job_id, completion_event, loop):
\* at the limit the oldest entry is marked cancelled, its event.set is handed to
\* its loop, the entry is deleted and the cleanup of its properties is scheduled
ResRegister(j) ==
    /\ LoopFree
    /\ j = nextId
    /\ pc[j] = "idle"
    /\ nextId' = nextId + 1
    /\ pending' = _register_pending(pending, j)
    /\ IF IsFull(pending)
       THEN /\ posted' = posted \cup {OldestId(pending)}
            /\ evicted' = evicted \cup {OldestId(pending)}
            /\ \E ok \in BOOLEAN :
                 timers' = _schedule_property_cleanup_for_job(timers, OldestId(pending), ok)
       ELSE UNCHANGED <<posted, evicted, timers>>
    /\ pc' = [pc EXCEPT ![j] = "r_sched"]
    /\ before' = pending
    /\ UNCHANGED <<out, rq, ev, hostPc, hostJob, hostResult, wm, work, call, netVars, srvVars>>

\* bpy.app.timers.register(run_on_main_thread); an exception leaves through
\* finally: _unregister_pending(job_id)
ResSchedule(j) ==
    /\ pc[j] = "r_sched"
    /\ \E ok \in BOOLEAN :
        /\ timers' = TimerRegister(timers, "run_on_main_thread", j, ok)
        /\ IF ok
           THEN /\ pc' = [pc EXCEPT ![j] = "r_wait"]
                /\ UNCHANGED <<pending, out>>
           ELSE /\ pending' = _unregister_pending(pending, j).pending
                /\ out' = [out EXCEPT ![j] = Outcome("schedule_failed", TimerException)]
                /\ pc' = [pc EXCEPT ![j] = "done"]
    /\ before' = <<>>
    /\ UNCHANGED <<nextId, rq, posted, ev, hostPc, hostJob, hostResult, wm, work,
                   evicted, call, netVars, srvVars>>

\* the loop runs an event.set that call_soon_threadsafe handed to it
LoopRunCallback(j) ==
    /\ LoopFree
    /\ j \in posted
    /\ posted' = posted \ {j}
    /\ ev' = ev \cup {j}
    /\ UNCHANGED <<nextId, pc, out, rq, pending, timers, hostPc, hostJob,
                   hostResult, wm, work, evicted, call, before, netVars, srvVars>>

\* what execute_resource returns or raises once its event is set and it was
\* not cancelled: error_msg = wm.get(error_key); result = wm.get(result_key, "")
ResReturn(props) ==
    IF props.error # None THEN Outcome("error", props.error)
    ELSE Outcome("success", props.data)

\* wait_for returned: cancelled -> schedule the cleanup, RuntimeError("Operation
\* cancelled: too many pending operations (max N)"); otherwise read the
\* properties, register immediate_cleanup, return or raise; finally unregister
ResWake(j) ==
    /\ LoopFree
    /\ pc[j] = "r_wait"
    /\ j \in ev
    /\ \E ok \in BOOLEAN :
        IF _is_cancelled(pending, j)
        THEN /\ timers' = _schedule_property_cleanup_for_job(timers, j, ok)
             /\ out' = [out EXCEPT ![j] = CancelledError]
        ELSE /\ timers' = TimerRegister(timers, "immediate_cleanup", j, ok)
             /\ out' = [out EXCEPT ![j] =
                          IF ok THEN ResReturn(wm[j]) ELSE Outcome("timer_error", None)]
    /\ pending' = _unregister_pending(pending, j).pending
    /\ pc' = [pc EXCEPT ![j] = "done"]
    /\ UNCHANGED <<nextId, rq, posted, ev, hostPc, hostJob, hostResult, wm, work,
                   evicted, call, before, netVars, srvVars>>

\* asyncio.TimeoutError: schedule the cleanup, raise TimeoutError; finally unregister
ResTimeout(j) ==
    /\ LoopFree
    /\ pc[j] = "r_wait"
    /\ j \notin ev
    /\ \E ok \in BOOLEAN :
         timers' = _schedule_property_cleanup_for_job(timers, j, ok)
    /\ out' = [out EXCEPT ![j] = Outcome("timeout", None)]
    /\ pending' = _unregister_pending(pending, j).pending
    /\ pc' = [pc EXCEPT ![j] = "done"]
    /\ UNCHANGED <<nextId, rq, posted, ev, hostPc, hostJob, hostResult, wm, work,
                   evicted, call, before, netVars, srvVars>>

-----------------------------------------------------------------------------
(* Blender's main thread: one timer callback at a time, in registration order *)

HostTakes(fn) == hostPc = "idle" /\ timers # <<>> /\ Head(timers).fn = fn

\* execute_in_main_thread: if is_cancelled(job_id): return None
HostToolCheck ==
    /\ HostTakes("execute_in_main_thread")
    /\ timers' = Tail(timers)
    /\ IF is_cancelled(rq, Head(timers).job)
       THEN UNCHANGED <<hostPc, hostJob>>
       ELSE /\ hostPc' = "run_code"
            /\ hostJob' = Head(timers).job
    /\ UNCHANGED <<nextId, pc, out, rq, pending, posted, ev, hostResult, wm, work,
                   evicted, call, before, netVars, srvVars>>

\* bpy.ops.bmcp.run_code(code, job_id) executes the code and stores its
\* result_dict or error_dict; result = json.loads(wm.get(result_key)); del wm[result_key]
HostToolRunCode ==
    /\ hostPc = "run_code"
    /\ \E r \in {OpSuccess(hostJob), OpError(hostJob)} :
        /\ work' = [work EXCEPT ![hostJob] = r]
        /\ hostResult' = r
    /\ hostPc' = "store"
    /\ UNCHANGED <<nextId, pc, out, rq, pending, posted, ev, timers, hostJob, wm,
                   evicted, call, before, netVars, srvVars>>

\* set_success(job_id, result), or raise RuntimeError(error_msg) into
\* except: set_error(job_id, str(e))
HostToolStore ==
    /\ hostPc = "store"
    /\ rq' = IF hostResult.status = "success"
             THEN set_success(rq, hostJob, hostResult).queue
             ELSE set_error(rq, hostJob, hostResult).queue
    /\ hostPc' = "idle"
    /\ hostJob' = 0
    /\ hostResult' = None
    /\ UNCHANGED <<nextId, pc, out, pending, posted, ev, timers, wm, work,
                   evicted, call, before, netVars, srvVars>>

\* run_on_main_thread: bpy.ops.bmcp.get_resources(uri, job_id) runs the handler
\* and stores its result, or its error, and the done flag
HostResRun ==
    /\ HostTakes("run_on_main_thread")
    /\ timers' = Tail(timers)
    /\ LET j == Head(timers).job IN
        /\ \E r \in {OpSuccess(j), OpError(j)} :
            /\ work' = [work EXCEPT ![j] = r]
            /\ wm' = [wm EXCEPT ![j] =
                        IF r.status = "success"
                        THEN [data |-> r, error |-> None, done |-> TRUE]
                        ELSE [data |-> None, error |-> r, done |-> TRUE]]
        /\ hostJob' = j
    /\ hostPc' = "signal"
    /\ UNCHANGED <<nextId, pc, out, rq, pending, posted, ev, hostResult, evicted, call, before, netVars, srvVars>>

\* _signal_completion(job_id): an entry still pending gets its event.set
\* handed to its loop
_signal_completion(ps, p, j) == IF j \in PendingIds(p) THEN ps \cup {j} ELSE ps

HostResSignal ==
    /\ hostPc = "signal"
    /\ posted' = _signal_completion(posted, pending, hostJob)
    /\ hostPc' = "idle"
    /\ hostJob' = 0
    /\ UNCHANGED <<nextId, pc, out, rq, pending, ev, timers, hostResult, wm, work,
                   evicted, call, before, netVars, srvVars>>

\* the cleanup of _schedule_property_cleanup_for_job, and immediate_cleanup:
\* delete the job's properties
HostCleanup ==
    /\ \/ HostTakes("cleanup")
       \/ HostTakes("immediate_cleanup")
    /\ timers' = Tail(timers)
    /\ wm' = [wm EXCEPT ![Head(timers).job] = NoProps]
    /\ UNCHANGED <<nextId, pc, out, rq, pending, posted, ev, hostPc, hostJob,
                   hostResult, work, evicted, call, before, netVars, srvVars>>

-----------------------------------------------------------------------------
ToolNext ==
    \/ \E j \in JobIds : ToolRegister(j)
    \/ \E j \in JobIds : ToolSchedule(j)
    \/ \E j \in JobIds : ToolWaitCompleted(j)
    \/ \E j \in JobIds : ToolWaitTimeout(j)
    \/ \E j \in JobIds : ToolMarkCancelled(j)
    \/ \E j \in JobIds : ToolGetResult(j)
    \/ \E j \in JobIds : ToolFinally(j)
    \/ HostToolCheck
    \/ HostToolRunCode
    \/ HostToolStore

ResNext ==
    \/ \E j \in JobIds : ResRegister(j)
    \/ \E j \in JobIds : ResSchedule(j)
    \/ \E j \in JobIds : LoopRunCallback(j)
    \/ \E j \in JobIds : ResWake(j)
    \/ \E j \in JobIds : ResTimeout(j)
    \/ HostResRun
    \/ HostResSignal
    \/ HostCleanup

Next == ToolNext \/ ResNext

\* tool calls and resource reads together
Spec == Init /\ [][Next]_vars

\* tool calls alone
SpecTool == Init /\ [][ToolNext]_vars

\* the task that awaits in execute_resource is cancelled (task.cancel() of the
\* shutdown): CancelledError leaves the await, passes the except
\* asyncio.TimeoutError clause and goes through finally: _unregister_pending
ResCancelled(j) ==
    /\ LoopFree
    /\ pc[j] = "r_wait"
    /\ out' = [out EXCEPT ![j] = Outcome("task_cancelled", None)]
    /\ pending' = _unregister_pending(pending, j).pending
    /\ pc' = [pc EXCEPT ![j] = "done"]
    /\ UNCHANGED <<nextId, rq, posted, ev, timers, hostPc, hostJob, hostResult, wm,
                   work, evicted, call, before, netVars, srvVars>>

NextCancel ==
    \/ Next
    \/ \E j \in JobIds : ResCancelled(j)

\* tool calls and resource reads whose tasks may be cancelled
SpecCancel == Init /\ [][NextCancel]_vars

NextResCancel ==
    \/ ResNext
    \/ \E j \in JobIds : ResCancelled(j)

\* the loop runs the coroutines and callbacks that are ready, a wait ends
\* with its event or its timeout, and the main thread runs its timers;
\* nobody is bound to send a request or to cancel a task
ResFairness ==
    /\ \A j \in JobIds :
         /\ WF_vars(ResSchedule(j))
         /\ WF_vars(LoopRunCallback(j))
         /\ WF_vars(ResWake(j) \/ ResTimeout(j))
    /\ WF_vars(HostResRun)
    /\ WF_vars(HostResSignal)
    /\ WF_vars(HostCleanup)

\* resource reads alone, scheduled fairly
SpecResFair == Init /\ [][NextResCancel]_vars /\ ResFairness

\* resource reads alone
SpecRes == Init /\ [][ResNext]_vars

-----------------------------------------------------------------------------
(* The ResultQueue methods and _unregister_pending called directly, in any  *)
(* order and with any job id, as their callers on several threads may.      *)

\* the pending sets the program can hold: distinct ids in the order they were
\* issued, at most MAX_PENDING_OPERATIONS of them
PendingOf(S) ==
    LET n == Cardinality(S)
        f == CHOOSE g \in [1..n -> S] : \A a, b \in 1..n : a < b => g[a] < g[b]
    IN [i \in 1..n |-> PendingEntry(f[i])]

InitAPI ==
    /\ nextId = 1
    /\ pc = [j \in JobIds |-> "idle"]
    /\ out = [j \in JobIds |-> NoOutcome]
    /\ rq = [j \in {} |-> JobEntry]
    /\ pending \in {PendingOf(S) :
                      S \in {T \in SUBSET ApiIds : Cardinality(T) <= MAX_PENDING_OPERATIONS}}
    /\ posted = {}
    /\ ev = {}
    /\ timers = <<>>
    /\ hostPc = "idle"
    /\ hostJob = 0
    /\ hostResult = None
    /\ wm = [j \in JobIds |-> NoProps]
    /\ work = [j \in JobIds |-> None]
    /\ evicted = {}
    /\ call = NoCall
    /\ before = <<>>
    /\ InitTransport
    /\ InitServer

Called(op, j, r) == [op |-> op, id |-> j, ret |-> r]

ApiFrame == UNCHANGED <<nextId, pc, out, posted, ev, timers, hostPc, hostJob,
                        hostResult, wm, work, evicted, before, netVars, srvVars>>

ApiRegister(j) ==
    /\ rq' = register(rq, j).queue
    /\ call' = Called("register", j, register(rq, j).ret)
    /\ UNCHANGED pending
    /\ ApiFrame

ApiSetSuccess(j) ==
    /\ rq' = set_success(rq, j, OpSuccess(j)).queue
    /\ call' = Called("set_success", j, set_success(rq, j, OpSuccess(j)).ret)
    /\ UNCHANGED pending
    /\ ApiFrame

ApiSetError(j) ==
    /\ rq' = set_error(rq, j, OpError(j)).queue
    /\ call' = Called("set_error", j, set_error(rq, j, OpError(j)).ret)
    /\ UNCHANGED pending
    /\ ApiFrame

ApiMarkCancelled(j) ==
    /\ rq' = mark_cancelled(rq, j).queue
    /\ call' = Called("mark_cancelled", j, mark_cancelled(rq, j).ret)
    /\ UNCHANGED pending
    /\ ApiFrame

ApiGetResult(j) ==
    /\ call' = Called("get_result", j, get_result(rq, j).status)
    /\ UNCHANGED <<rq, pending>>
    /\ ApiFrame

ApiCleanup(j) ==
    /\ rq' = cleanup(rq, j).queue
    /\ call' = Called("cleanup", j, cleanup(rq, j).ret)
    /\ UNCHANGED pending
    /\ ApiFrame

ApiUnregisterPending(j) ==
    /\ pending' = _unregister_pending(pending, j).pending
    /\ call' = Called("_unregister_pending", j, _unregister_pending(pending, j).ret)
    /\ UNCHANGED rq
    /\ ApiFrame

NextAPI ==
    \/ \E j \in ApiIds : ApiRegister(j)
    \/ \E j \in ApiIds : ApiSetSuccess(j)
    \/ \E j \in ApiIds : ApiSetError(j)
    \/ \E j \in ApiIds : ApiMarkCancelled(j)
    \/ \E j \in ApiIds : ApiGetResult(j)
    \/ \E j \in ApiIds : ApiCleanup(j)
    \/ \E j \in ApiIds : ApiUnregisterPending(j)

SpecAPI == InitAPI /\ [][NextAPI]_vars

-----------------------------------------------------------------------------
(* The SSEQueue methods called directly on one queue, in any order *)

QFrame == UNCHANGED <<jobVars, srvVars, sse_queues, gen, now, nextSession, req>>

\* queue.append(message), the messages numbered in the order they are pushed
QAppend ==
    /\ nextMsg <= MaxMsgs
    /\ LET r == append(sseq[1], Msg(nextMsg), now) IN
        /\ sseq' = [sseq EXCEPT ![1] = r.q]
        /\ qcall' = [op |-> "append", ret |-> r.ret]
    /\ nextMsg' = nextMsg + 1
    /\ UNCHANGED stream
    /\ QFrame

\* queue.popleft(); the caller keeps what it was given
QPopleft ==
    /\ LET r == popleft(sseq[1]) IN
        /\ sseq' = [sseq EXCEPT ![1] = r.q]
        /\ qcall' = [op |-> "popleft", ret |-> r.ret]
        /\ stream' = [stream EXCEPT ![1] = Yield(@, r.ret)]
    /\ UNCHANGED nextMsg
    /\ QFrame

\* queue.get_drop_notification(); the caller keeps what it was given
QGetDropNotification ==
    /\ LET r == get_drop_notification(sseq[1]) IN
        /\ sseq' = [sseq EXCEPT ![1] = r.q]
        /\ qcall' = [op |-> "get_drop_notification", ret |-> r.ret]
        /\ stream' = [stream EXCEPT ![1] = Yield(@, r.ret)]
    /\ UNCHANGED nextMsg
    /\ QFrame

NextQueue ==
    \/ QAppend
    \/ QPopleft
    \/ QGetDropNotification

SpecQueue == Init /\ [][NextQueue]_vars

-----------------------------------------------------------------------------
(* GET /sse: event_generator, a coroutine of the server's event loop, the   *)
(* responses pushed to its queue, and the periodic sweep                    *)

\* session_id = str(uuid.uuid4()); sse_queues[session_id] = SSEQueue(...);
\* yield the "session" and "endpoint" events
OpenStream(s) ==
    /\ s = nextSession
    /\ gen[s] = "none"
    /\ nextSession' = nextSession + 1
    /\ sse_queues' = sse_queues \cup {s}
    /\ sseq' = [sseq EXCEPT ![s] = SSEQueue(now)]
    /\ stream' = [stream EXCEPT ![s] = Yield(@, Endpoint)]
    /\ gen' = [gen EXCEPT ![s] = "top"]
    /\ UNCHANGED <<jobVars, srvVars, now, nextMsg, qcall, req>>

\* drop_notification = message_queue.get_drop_notification(); yield it if any
GenPoll(s) ==
    /\ gen[s] = "top"
    /\ LET r == get_drop_notification(sseq[s]) IN
        /\ sseq' = [sseq EXCEPT ![s] = r.q]
        /\ stream' = [stream EXCEPT ![s] = IF r.ret = NoMessage THEN @ ELSE Yield(@, r.ret)]
    /\ gen' = [gen EXCEPT ![s] = "drain"]
    /\ UNCHANGED <<jobVars, srvVars, sse_queues, now, nextMsg, nextSession, qcall, req>>

\* response = message_queue.popleft(); yield it as a "message" event, or leave
\* the drain loop for wait_for_message
GenDrain(s) ==
    /\ gen[s] = "drain"
    /\ LET r == popleft(sseq[s]) IN
        /\ sseq' = [sseq EXCEPT ![s] = r.q]
        /\ IF r.ret = NoMessage
           THEN /\ gen' = [gen EXCEPT ![s] = "wait"]
                /\ UNCHANGED stream
           ELSE /\ stream' = [stream EXCEPT ![s] = Yield(@, r.ret)]
                /\ UNCHANGED gen
    /\ UNCHANGED <<jobVars, srvVars, sse_queues, now, nextMsg, nextSession, qcall, req>>

\* asyncio.wait_for(self._event.wait(), timeout): the event is set, the wait ends
GenWake(s) ==
    /\ gen[s] = "wait"
    /\ sseq[s].event
    /\ gen' = [gen EXCEPT ![s] = "clear"]
    /\ UNCHANGED <<jobVars, srvVars, sse_queues, sseq, stream, now, nextMsg, nextSession,
                   qcall, req>>

\* self._event.clear(); return True; back to the top of the loop
GenClear(s) ==
    /\ gen[s] = "clear"
    /\ sseq' = [sseq EXCEPT ![s].event = FALSE]
    /\ gen' = [gen EXCEPT ![s] = "top"]
    /\ UNCHANGED <<jobVars, srvVars, sse_queues, stream, now, nextMsg, nextSession, qcall, req>>

\* asyncio.TimeoutError: return False; yield the "ping" event.  The timeout
\* can fire although the event has just been set.
GenTimeout(s) ==
    /\ gen[s] = "wait"
    /\ stream' = [stream EXCEPT ![s] = Yield(@, Ping)]
    /\ gen' = [gen EXCEPT ![s] = "top"]
    /\ UNCHANGED <<jobVars, srvVars, sse_queues, sseq, now, nextMsg, nextSession, qcall, req>>

\* the client disconnects: CancelledError at a yield or await; finally:
\* if session_id in sse_queues: del sse_queues[session_id]
CloseStream(s) ==
    /\ gen[s] \notin {"none", "closed"}
    /\ sse_queues' = sse_queues \ {s}
    /\ gen' = [gen EXCEPT ![s] = "closed"]
    /\ UNCHANGED <<jobVars, srvVars, sseq, stream, now, nextMsg, nextSession, qcall, req>>

\* process_and_queue of some POSTed message: sse_queues[session_id].append(response)
Push(s) ==
    /\ s \in sse_queues
    /\ nextMsg <= MaxMsgs
    /\ sseq' = [sseq EXCEPT ![s] = append(@, Msg(nextMsg), now).q]
    /\ nextMsg' = nextMsg + 1
    /\ UNCHANGED <<jobVars, srvVars, sse_queues, gen, stream, now, nextSession, qcall, req>>

\* time passes
Tick ==
    /\ now < MaxTime
    /\ now' = now + 1
    /\ UNCHANGED <<jobVars, srvVars, sse_queues, sseq, gen, stream, nextMsg, nextSession,
                   qcall, req>>

\* now - queue.last_activity > SSE_SESSION_TIMEOUT
IsStale(q, t) == t - q.last_activity > SSE_SESSION_TIMEOUT

\* cleanup_stale_sse_sessions(sse_queues), run by _sse_cleanup_loop
cleanup_stale_sse_sessions ==
    /\ sse_queues' = {s \in sse_queues : ~IsStale(sseq[s], now)}
    /\ UNCHANGED <<jobVars, srvVars, sseq, gen, stream, now, nextMsg, nextSession, qcall, req>>

\* the steps of event_generator that need no timeout
GenNext(s) ==
    \/ GenPoll(s)
    \/ GenDrain(s)
    \/ GenWake(s)
    \/ GenClear(s)

NextSSE ==
    \/ \E s \in Sessions : OpenStream(s)
    \/ \E s \in Sessions : GenPoll(s)
    \/ \E s \in Sessions : GenDrain(s)
    \/ \E s \in Sessions : GenWake(s)
    \/ \E s \in Sessions : GenClear(s)
    \/ \E s \in Sessions : GenTimeout(s)
    \/ \E s \in Sessions : CloseStream(s)
    \/ \E s \in Sessions : Push(s)
    \/ Tick
    \/ cleanup_stale_sse_sessions

SpecSSE == Init /\ [][NextSSE]_vars

\* the streams alone: the sweep changes the session map only, which no step
\* of event_generator reads after it has created its queue
NextStream ==
    \/ \E s \in Sessions : OpenStream(s)
    \/ \E s \in Sessions : GenPoll(s)
    \/ \E s \in Sessions : GenDrain(s)
    \/ \E s \in Sessions : GenWake(s)
    \/ \E s \in Sessions : GenClear(s)
    \/ \E s \in Sessions : GenTimeout(s)
    \/ \E s \in Sessions : CloseStream(s)
    \/ \E s \in Sessions : Push(s)

\* the event loop keeps running every event_generator that can take a step;
\* nothing is assumed of the timeout
SpecStreamFair ==
    Init /\ [][NextStream]_vars /\ \A s \in Sessions : WF_vars(GenNext(s))

-----------------------------------------------------------------------------
(* POST /sse and POST /http: sse_endpoint, rpc_endpoint, dispatch_request   *)

\* handlers.py: METHOD_HANDLERS
METHOD_HANDLERS ==
    {"initialize", "tools/list", "tools/call", "resources/list", "resources/read",
     "prompts/list", "prompts/get", "notifications/initialized",
     "notifications/cancelled"}

\* MCPServer._tool_cache: the registered tools
ToolCache == {"blender_run_code"}

\* the messages POSTed: the method (or none), and the tool name or resource uri
\* of its params
Inbound ==
    {[method |-> "tools/list", name |-> "None"],
     [method |-> "tools/call", name |-> "blender_run_code"],
     [method |-> "tools/call", name |-> "not_registered"],
     [method |-> "tools/call", name |-> ""],
     [method |-> "resources/read", name |-> "blender://resource"],
     [method |-> "not/a/method", name |-> "None"],
     [method |-> "None", name |-> "None"]}

\* how execute_on_main_thread ends for a tool call (the kinds of Outcome that
\* the job handoff produces)
ToolExecKinds == {"success", "error", "timeout", "schedule_failed"}

\* how execute_resource ends: its result, or an exception
ResExecKinds == {"success", "error", "timeout"}

\* what awaiting a handler gives: a result, or the class of the exception raised
Result(isError, e) == [kind |-> "result", isError |-> isError, exec |-> e]
Raised(cls, e) == [kind |-> cls, isError |-> FALSE, exec |-> e]

\* MCPServer.call_tool: ValueError("Tool ... not found"), or the tool's handler
\* returning its output or raising what execute_on_main_thread raised
call_tool(name) == IF name \notin ToolCache THEN {"not_found"} ELSE ToolExecKinds

\* a plausible slip: the tool's exception is raised again to the transport
handle_tools_call_Reraise(name, e) ==
    IF name = "" THEN Raised("ValueError", "none")
    ELSE IF e = "success" THEN Result(FALSE, e)
    ELSE Raised("RuntimeError", e)

\* handle_tools_call: ValueError for a missing or empty name; otherwise the
\* content of the result, or on any exception the content with isError: True
handle_tools_call(name, e) ==
    IF name = "" THEN Raised("ValueError", "none")
    ELSE IF e = "success" THEN Result(FALSE, e)
    ELSE Result(TRUE, e)

\* handle_resources_read: the contents, or RuntimeError("Resource read failed: ...")
handle_resources_read(name, e) ==
    IF name = "" THEN Raised("ValueError", "none")
    ELSE IF e = "success" THEN Result(FALSE, e)
    ELSE Raised("RuntimeError", e)

\* dispatch_request(mcp_server, method, params): every way awaiting it can end
dispatch_request(method, name) ==
    IF method \notin METHOD_HANDLERS THEN {Raised("ValueError", "none")}
    ELSE IF method = "tools/call"
    THEN {handle_tools_call(name, e) : e \in IF name = "" THEN {"none"} ELSE call_tool(name)}
    ELSE IF method = "resources/read"
    THEN {handle_resources_read(name, e) : e \in IF name = "" THEN {"none"} ELSE ResExecKinds}
    ELSE {Result(FALSE, "none")}

\* the JSON bodies: {"id": msg_id, "result": result} and {"id": msg_id, "error": {"code": code}}
ResultBody(id, oc) == [kind |-> "result", code |-> 0, isError |-> oc.isError, id |-> id]
ErrorBody(id, code) == [kind |-> "error", code |-> code, isError |-> FALSE, id |-> id]

HttpResponse(status, body) == [status |-> status, body |-> body]

\* rpc_endpoint after dispatch: 204 for a notification, else the result, or
\* -32602 for ValueError, or -32603 for any other exception
RpcResponse(id, oc) ==
    IF id = 0 THEN HttpResponse(204, NoBody)
    ELSE IF oc.kind = "result" THEN HttpResponse(200, ResultBody(id, oc))
    ELSE IF oc.kind = "ValueError" THEN HttpResponse(200, ErrorBody(id, -32602))
    ELSE HttpResponse(200, ErrorBody(id, -32603))

\* sse_endpoint after dispatch, in either mode: the result, or -32603 for any exception
SseResponse(id, oc) ==
    IF oc.kind = "result" THEN ResultBody(id, oc) ELSE ErrorBody(id, -32603)

\* messages are POSTed one after another; each is handled concurrently
Arrives(r) == req[r].pc = "new" /\ \A k \in ReqIds : k < r => req[k].pc # "new"

\* msg_id = data.get("id"): absent (0) or present
MsgIds == {0, 1}

\* X-MCP-Session-ID: absent (0) or a session id, of a session open or not
Tokens == {0} \cup Sessions

ReqFrame == UNCHANGED <<jobVars, srvVars, sse_queues, gen, stream, now, nextSession, qcall>>

\* rpc_endpoint up to the dispatch: "Invalid Request: method is required"
RpcReceive(r) ==
    /\ Arrives(r)
    /\ \E in \in Inbound, id \in MsgIds :
         req' = [req EXCEPT ![r] =
                   IF in.method = "None"
                   THEN [@ EXCEPT !.pc = "done", !.surface = "http", !.method = in.method,
                                  !.name = in.name, !.id = id,
                                  !.http = HttpResponse(200, ErrorBody(id, -32600))]
                   ELSE [@ EXCEPT !.pc = "rpc", !.surface = "http", !.method = in.method,
                                  !.name = in.name, !.id = id]]
    /\ UNCHANGED <<sseq, nextMsg>>
    /\ ReqFrame

\* result = await dispatch_request(...) and the response of rpc_endpoint
RpcRespond(r) ==
    /\ req[r].pc = "rpc"
    /\ \E oc \in dispatch_request(req[r].method, req[r].name) :
         req' = [req EXCEPT ![r].pc = "done", ![r].exec = oc.exec,
                            ![r].http = RpcResponse(req[r].id, oc)]
    /\ UNCHANGED <<sseq, nextMsg>>
    /\ ReqFrame

\* a plausible slip: any session token selects the stream mode
HasSession_AnyToken(token, map) == token # 0

\* if session_id and session_id in sse_queues
HasSession(token, map) == token # 0 /\ token \in map

\* sse_endpoint, POST: with a session in the map create the task
\* process_and_queue and return 202; otherwise go on to dispatch in this call
SsePost(r) ==
    /\ Arrives(r)
    /\ \E in \in Inbound, id \in MsgIds, token \in Tokens :
         req' = [req EXCEPT ![r] =
                   IF HasSession(token, sse_queues)
                   THEN [@ EXCEPT !.pc = "bg", !.surface = "sse", !.method = in.method,
                                  !.name = in.name, !.id = id, !.token = token,
                                  !.http = HttpResponse(202, NoBody)]
                   ELSE [@ EXCEPT !.pc = "sync", !.surface = "sse", !.method = in.method,
                                  !.name = in.name, !.id = id, !.token = token]]
    /\ UNCHANGED <<sseq, nextMsg>>
    /\ ReqFrame

\* a plausible slip: sse_queues.setdefault(session_id, SSEQueue(...)).append(response),
\* which re-creates the queue of a session that has gone
SseBackground_SetDefault(r) ==
    /\ req[r].pc = "bg"
    /\ \E oc \in dispatch_request(req[r].method, req[r].name) :
         /\ sseq' = [sseq EXCEPT ![req[r].token] =
                       append(IF req[r].token \in sse_queues THEN @ ELSE SSEQueue(now),
                              Msg(nextMsg), now).q]
         /\ sse_queues' = sse_queues \cup {req[r].token}
         /\ nextMsg' = nextMsg + 1
         /\ req' = [req EXCEPT ![r].pc = "done", ![r].exec = oc.exec,
                               ![r].built = nextMsg,
                               ![r].queued = SseResponse(req[r].id, oc)]
    /\ UNCHANGED <<jobVars, srvVars, gen, stream, now, nextSession, qcall>>

\* process_and_queue: dispatch, build the response, sse_queues[session_id]
\* .append(response); KeyError when the session has gone: the response is dropped
SseBackground(r) ==
    /\ req[r].pc = "bg"
    /\ \E oc \in dispatch_request(req[r].method, req[r].name) :
         IF req[r].token \in sse_queues
         THEN /\ sseq' = [sseq EXCEPT ![req[r].token] = append(@, Msg(nextMsg), now).q]
              /\ nextMsg' = nextMsg + 1
              /\ req' = [req EXCEPT ![r].pc = "done", ![r].exec = oc.exec,
                                    ![r].built = nextMsg,
                                    ![r].queued = SseResponse(req[r].id, oc)]
         ELSE /\ req' = [req EXCEPT ![r].pc = "done", ![r].exec = oc.exec]
              /\ UNCHANGED <<sseq, nextMsg>>
    /\ ReqFrame

\* the synchronous mode of sse_endpoint: the response is the body of this call
SseSync(r) ==
    /\ req[r].pc = "sync"
    /\ \E oc \in dispatch_request(req[r].method, req[r].name) :
         req' = [req EXCEPT ![r].pc = "done", ![r].exec = oc.exec,
                            ![r].http = HttpResponse(200, SseResponse(req[r].id, oc))]
    /\ UNCHANGED <<sseq, nextMsg>>
    /\ ReqFrame

NextRPC ==
    \/ \E s \in Sessions : OpenStream(s)
    \/ \E s \in Sessions : CloseStream(s)
    \/ \E r \in ReqIds : RpcReceive(r)
    \/ \E r \in ReqIds : RpcRespond(r)
    \/ \E r \in ReqIds : SsePost(r)
    \/ \E r \in ReqIds : SseBackground(r)
    \/ \E r \in ReqIds : SseSync(r)

\* messages POSTed to /http and to /sse while streams open and close
SpecRPC == Init /\ [][NextRPC]_vars

NextPost ==
    \/ \E s \in Sessions : OpenStream(s)
    \/ \E s \in Sessions : CloseStream(s)
    \/ Tick
    \/ cleanup_stale_sse_sessions
    \/ \E r \in ReqIds : SsePost(r)
    \/ \E r \in ReqIds : SseBackground(r)
    \/ \E r \in ReqIds : SseSync(r)

\* messages POSTed to /sse while streams open, close and are swept
SpecPost == Init /\ [][NextPost]_vars

-----------------------------------------------------------------------------
(* Bodies that are not a JSON object: request.json() and data.get(...)      *)

\* the bodies POSTed that are not a JSON object: text that json.loads rejects,
\* and valid JSON whose top level is a list
OddBodies == {"not_json", "list"}

\* data = await request.json(): what it returns or raises for such a body
request_json(b) == IF b = "not_json" THEN "JSONDecodeError" ELSE b

\* {"id": None, "error": {"code": -32700, ...}}, status_code=400
ParseError == HttpResponse(400, ErrorBody(0, -32700))

\* an exception that no except clause of the endpoint catches leaves it; the
\* client gets the server's 500 page, which is no JSON-RPC response
Uncaught(cls) == HttpResponse(500, [kind |-> cls, code |-> 0, isError |-> FALSE, id |-> 0])

\* rpc_endpoint: only request.json() is inside the try; data.get("method") on a
\* list raises AttributeError after it
rpc_endpoint_odd(b) ==
    IF request_json(b) = "JSONDecodeError" THEN ParseError ELSE Uncaught("AttributeError")

\* sse_endpoint, POST: request.json() and data.get(...) are both inside the
\* outer try, whose except Exception answers 400
sse_endpoint_odd(b) == ParseError

\* POST /http with a body that is not an object
RpcParse(r) ==
    /\ Arrives(r)
    /\ \E b \in OddBodies :
         req' = [req EXCEPT ![r] = [@ EXCEPT !.pc = "done", !.surface = "http",
                                             !.method = b, !.http = rpc_endpoint_odd(b)]]
    /\ UNCHANGED <<sseq, nextMsg>>
    /\ ReqFrame

\* POST /sse with a body that is not an object
SseParse(r) ==
    /\ Arrives(r)
    /\ \E b \in OddBodies, token \in Tokens :
         req' = [req EXCEPT ![r] = [@ EXCEPT !.pc = "done", !.surface = "sse",
                                             !.method = b, !.token = token,
                                             !.http = sse_endpoint_odd(b)]]
    /\ UNCHANGED <<sseq, nextMsg>>
    /\ ReqFrame

NextBody ==
    \/ \E s \in Sessions : OpenStream(s)
    \/ \E s \in Sessions : CloseStream(s)
    \/ \E r \in ReqIds : RpcParse(r)
    \/ \E r \in ReqIds : RpcReceive(r)
    \/ \E r \in ReqIds : RpcRespond(r)
    \/ \E r \in ReqIds : SseParse(r)
    \/ \E r \in ReqIds : SsePost(r)
    \/ \E r \in ReqIds : SseBackground(r)
    \/ \E r \in ReqIds : SseSync(r)

\* any body POSTed to /http and to /sse while streams open and close
SpecBody == Init /\ [][NextBody]_vars

-----------------------------------------------------------------------------
(* ServerManager.start, ServerManager.stop and its graceful_shutdown thread, *)
(* the start operator, the public wait_shutdown                              *)

\* the addon preferences _get_server_config reads
Preferences ==
    [auth_required : BOOLEAN, auth_token : {"", "secret"}, network_access : BOOLEAN]

\* a plausible slip: network access is not looked at
validate_config_AuthOnly(prefs, port_ok) ==
    /\ port_ok
    /\ ~(prefs.auth_required /\ prefs.auth_token = "")

\* validate_config(...).valid: the port is usable, a required token is set, and
\* network access comes with a required token
validate_config(prefs, port_ok) ==
    /\ port_ok
    /\ ~(prefs.auth_required /\ prefs.auth_token = "")
    /\ prefs.network_access => (prefs.auth_required /\ prefs.auth_token # "")

\* how start() goes on after its checks: the server comes up, or
\* _wait_for_server_startup gives up, or creating the server raises
StartOutcomes == {"started", "startup_failed", "raised"}

\* a plausible slip: start() does not look at _shutting_down
PreFlight_NoFlag(loop, flag, valid, up) ==
    IF loop # "None" THEN "already_running"
    ELSE IF ~valid THEN "invalid_config"
    ELSE up

\* start(): "Server already running", "Server is still shutting down", an
\* invalid configuration, or the attempt itself
PreFlight(loop, flag, valid, up) ==
    IF loop # "None" THEN "already_running"
    ELSE IF flag THEN "shutting_down"
    ELSE IF ~valid THEN "invalid_config"
    ELSE up

\* the generators of the previous application went with its loop
Orphaned(g) == [s \in Sessions |-> IF g[s] = "none" THEN "none" ELSE "closed"]

\* start(): _initialize_mcp() comes first, whatever the checks then decide;
\* create_asgi_app gives the new application an empty session map and it has
\* handled no request; a failed
\* startup wait ends in self.stop()
start ==
    \E prefs \in Preferences, port_ok \in BOOLEAN, up \in StartOutcomes :
        LET why == PreFlight(_server_loop, _shutting_down,
                             validate_config(prefs, port_ok), up)
        IN  /\ _mcp_instance' = "MCPServer"
            /\ lcall' = LCall("start", why = "started", why)
            /\ CASE why = "started" ->
                      /\ _shutdown_complete' = TRUE
                      /\ _server_loop' = "loop"
                      /\ server_thread' = "alive"
                      /\ config' = prefs
                      /\ http' = NoHttp
                      /\ sse_queues' = {}
                      /\ gen' = Orphaned(gen)
                      /\ UNCHANGED <<_shutting_down, shutdown_thread>>
                 [] why = "startup_failed" ->
                      /\ _shutting_down' = TRUE
                      /\ _shutdown_complete' = FALSE
                      /\ _server_loop' = "None"
                      /\ server_thread' = "alive"
                      /\ shutdown_thread' = "cancel"
                      /\ config' = prefs
                      /\ http' = NoHttp
                      /\ sse_queues' = {}
                      /\ gen' = Orphaned(gen)
                 [] why = "raised" ->
                      /\ _shutdown_complete' = TRUE
                      /\ UNCHANGED <<_server_loop, _shutting_down, server_thread,
                                     shutdown_thread, config, http, sse_queues, gen>>
                 [] OTHER ->
                      UNCHANGED <<_server_loop, _shutting_down, _shutdown_complete,
                                  server_thread, shutdown_thread, config, http,
                                  sse_queues, gen>>
            /\ UNCHANGED <<jobVars, sseq, stream, now, nextMsg, nextSession, qcall, req,
                           clear_flag, waiter, bridge>>

\* a plausible slip: stop() starts a teardown whether or not a server is running
stop_Always ==
    /\ _shutting_down' = TRUE
    /\ _shutdown_complete' = FALSE
    /\ _server_loop' = "None"
    /\ shutdown_thread' = "cancel"
    /\ lcall' = LCall("stop", TRUE, "initiated")
    /\ UNCHANGED <<jobVars, netVars, _mcp_instance, server_thread, clear_flag, config,
                   http, waiter, bridge>>

\* stop(): with a server loop, set the flag, clear the event, drop the
\* references, start graceful_shutdown and return True; otherwise return False
stop ==
    /\ IF _server_loop # "None"
       THEN /\ _shutting_down' = TRUE
            /\ _shutdown_complete' = FALSE
            /\ _server_loop' = "None"
            /\ shutdown_thread' = "cancel"
            /\ lcall' = LCall("stop", TRUE, "initiated")
       ELSE /\ lcall' = LCall("stop", FALSE, "not_running")
            /\ UNCHANGED <<_shutting_down, _shutdown_complete, _server_loop, shutdown_thread>>
    /\ UNCHANGED <<jobVars, netVars, _mcp_instance, server_thread, clear_flag, config,
                   http, waiter, bridge>>

\* start_server() and stop_server() called on the main thread
StartCall == start_op.pc = "idle" /\ start /\ UNCHANGED start_op
StopCall == start_op.pc = "idle" /\ stop /\ UNCHANGED start_op

LifeFrame == UNCHANGED <<jobVars, netVars, lcall, config, http, bridge>>

\* graceful_shutdown, steps 1 and 2: should_exit = True; cancel_all_tasks with
\* future.result(timeout=1.0)
ShutdownCancel ==
    /\ shutdown_thread = "cancel"
    /\ shutdown_thread' = "join"
    /\ UNCHANGED <<_server_loop, _shutting_down, _shutdown_complete, _mcp_instance,
                   server_thread, clear_flag, start_op, waiter>>
    /\ LifeFrame

\* step 3: server_thread.join(timeout=GRACEFUL_SHUTDOWN_TIMEOUT); the thread is
\* in loop.run_forever()
ShutdownJoin ==
    /\ shutdown_thread = "join"
    /\ shutdown_thread' = IF server_thread = "alive" THEN "force" ELSE "finally"
    /\ UNCHANGED <<_server_loop, _shutting_down, _shutdown_complete, _mcp_instance,
                   server_thread, clear_flag, start_op, waiter>>
    /\ LifeFrame

\* step 4: call_soon_threadsafe(server_loop.stop); server_thread.join(timeout=0.5)
ShutdownForce ==
    /\ shutdown_thread = "force"
    /\ shutdown_thread' = "finally"
    /\ server_thread' = "stopping"
    /\ UNCHANGED <<_server_loop, _shutting_down, _shutdown_complete, _mcp_instance,
                   clear_flag, start_op, waiter>>
    /\ LifeFrame

\* the loop gets to the stop it was asked for; run_forever returns
LoopStops ==
    /\ server_thread = "stopping"
    /\ server_thread' = "none"
    /\ UNCHANGED <<_server_loop, _shutting_down, _shutdown_complete, _mcp_instance,
                   shutdown_thread, clear_flag, start_op, waiter>>
    /\ LifeFrame

\* a plausible slip: no finally clause, the exception ends the thread
ShutdownRaises_NoFinally ==
    /\ shutdown_thread \in {"cancel", "join", "force"}
    /\ shutdown_thread' = "done"
    /\ UNCHANGED <<_server_loop, _shutting_down, _shutdown_complete, _mcp_instance,
                   server_thread, clear_flag, start_op, waiter>>
    /\ LifeFrame

\* a step of the try block raises: except Exception logs "Error during
\* shutdown" and the steps that were left are skipped
ShutdownRaises ==
    /\ shutdown_thread \in {"cancel", "join", "force"}
    /\ shutdown_thread' = "finally"
    /\ UNCHANGED <<_server_loop, _shutting_down, _shutdown_complete, _mcp_instance,
                   server_thread, clear_flag, start_op, waiter>>
    /\ LifeFrame

\* finally: clear_pending_operations()
ShutdownFinally ==
    /\ shutdown_thread = "finally"
    /\ shutdown_thread' = "reset"
    /\ pending' = <<>>
    /\ UNCHANGED <<nextId, pc, out, rq, posted, ev, timers, hostPc, hostJob, hostResult,
                   wm, work, evicted, call, before, netVars>>
    /\ UNCHANGED <<_server_loop, _shutting_down, _shutdown_complete, _mcp_instance,
                   server_thread, clear_flag, start_op, waiter, lcall, config, http, bridge>>

\* if self._mcp_instance: self._mcp_instance.clear(); self._mcp_instance = None
ShutdownReset ==
    /\ shutdown_thread = "reset"
    /\ shutdown_thread' = "complete"
    /\ _mcp_instance' = "None"
    /\ UNCHANGED <<_server_loop, _shutting_down, _shutdown_complete, server_thread,
                   clear_flag, start_op, waiter>>
    /\ LifeFrame

\* self._shutdown_complete.set()
ShutdownComplete ==
    /\ shutdown_thread = "complete"
    /\ shutdown_thread' = "register"
    /\ _shutdown_complete' = TRUE
    /\ UNCHANGED <<_server_loop, _shutting_down, _mcp_instance, server_thread,
                   clear_flag, start_op, waiter>>
    /\ LifeFrame

\* bpy.app.timers.register(clear_flag, first_interval=0.3); if that raises,
\* self._shutting_down = False at once; the thread ends
ShutdownRegister ==
    /\ shutdown_thread = "register"
    /\ shutdown_thread' = "done"
    /\ \E ok \in BOOLEAN :
         IF ok THEN clear_flag' = TRUE /\ UNCHANGED _shutting_down
               ELSE _shutting_down' = FALSE /\ UNCHANGED clear_flag
    /\ UNCHANGED <<_server_loop, _shutdown_complete, _mcp_instance, server_thread,
                   start_op, waiter>>
    /\ LifeFrame

\* the main thread, when it runs nothing else, runs the timer clear_flag
ClearFlag ==
    /\ clear_flag
    /\ start_op.pc = "idle"
    /\ _shutting_down' = FALSE
    /\ clear_flag' = FALSE
    /\ UNCHANGED <<_server_loop, _shutdown_complete, _mcp_instance, shutdown_thread,
                   server_thread, start_op, waiter>>
    /\ LifeFrame

\* BMCP_OT_start_mcp_server.execute: if is_shutting_down(): wait_shutdown(timeout=3.0)
OpExecute ==
    /\ start_op.pc = "idle"
    /\ start_op' = [NoOp EXCEPT !.pc = IF _shutting_down THEN "wait" ELSE "go"]
    /\ UNCHANGED <<_server_loop, _shutting_down, _shutdown_complete, _mcp_instance,
                   shutdown_thread, server_thread, clear_flag, waiter>>
    /\ LifeFrame

\* the event is set within the 3 seconds: wait_shutdown returns True
OpWaitReturns ==
    /\ start_op.pc = "wait"
    /\ _shutdown_complete
    /\ start_op' = [start_op EXCEPT !.pc = "go", !.waited = TRUE]
    /\ UNCHANGED <<_server_loop, _shutting_down, _shutdown_complete, _mcp_instance,
                   shutdown_thread, server_thread, clear_flag, waiter>>
    /\ LifeFrame

\* it is not: "Server is still shutting down, please wait a moment", CANCELLED
OpWaitTimeout ==
    /\ start_op.pc = "wait"
    /\ ~_shutdown_complete
    /\ start_op' = [NoOp EXCEPT !.ret = "CANCELLED", !.why = "wait_timeout"]
    /\ UNCHANGED <<_server_loop, _shutting_down, _shutdown_complete, _mcp_instance,
                   shutdown_thread, server_thread, clear_flag, waiter>>
    /\ LifeFrame

\* if is_running(): CANCELLED; FINISHED if start_server() else CANCELLED
OpStart ==
    /\ start_op.pc = "go"
    /\ IF _server_loop # "None"
       THEN /\ start_op' = [start_op EXCEPT !.pc = "idle", !.ret = "CANCELLED",
                                            !.why = "is_running"]
            /\ UNCHANGED <<_server_loop, _shutting_down, _shutdown_complete,
                           _mcp_instance, shutdown_thread, server_thread, clear_flag,
                           waiter>>
            /\ LifeFrame
       ELSE /\ start
            /\ start_op' = [start_op EXCEPT
                              !.pc = "idle",
                              !.ret = IF lcall'.ret THEN "FINISHED" ELSE "CANCELLED",
                              !.why = lcall'.why]

\* the timeouts a caller passes: None, or the 2.0 of registry.unregister
WaitTimeouts == {"None", "2.0"}

\* def wait_shutdown(timeout=None): the timeout of a call that passes none
DefaultTimeout == "None"

\* api.wait_shutdown(), api.wait_shutdown(t)
wait_shutdown ==
    /\ waiter.pc = "idle"
    /\ \/ waiter' = [pc |-> "waiting", timeout |-> DefaultTimeout, given |-> FALSE]
       \/ \E t \in WaitTimeouts :
             waiter' = [pc |-> "waiting", timeout |-> t, given |-> TRUE]
    /\ UNCHANGED <<_server_loop, _shutting_down, _shutdown_complete, _mcp_instance,
                   shutdown_thread, server_thread, clear_flag, start_op>>
    /\ LifeFrame

\* self._shutdown_complete.wait(timeout=timeout) returns True: the event is set
WaitReturns ==
    /\ waiter.pc = "waiting"
    /\ _shutdown_complete
    /\ waiter' = [waiter EXCEPT !.pc = "idle"]
    /\ UNCHANGED <<_server_loop, _shutting_down, _shutdown_complete, _mcp_instance,
                   shutdown_thread, server_thread, clear_flag, start_op>>
    /\ LifeFrame

\* it returns False: the timeout, when there is one, has passed
WaitTimesOut ==
    /\ waiter.pc = "waiting"
    /\ waiter.timeout # "None"
    /\ ~_shutdown_complete
    /\ waiter' = [waiter EXCEPT !.pc = "idle"]
    /\ UNCHANGED <<_server_loop, _shutting_down, _shutdown_complete, _mcp_instance,
                   shutdown_thread, server_thread, clear_flag, start_op>>
    /\ LifeFrame

\* the steps of the graceful_shutdown thread
ShutdownNext ==
    \/ ShutdownCancel
    \/ ShutdownJoin
    \/ ShutdownForce
    \/ ShutdownRaises
    \/ ShutdownFinally
    \/ ShutdownReset
    \/ ShutdownComplete
    \/ ShutdownRegister

\* the steps of the start operator
OpNext ==
    \/ OpExecute
    \/ OpWaitReturns
    \/ OpWaitTimeout
    \/ OpStart

NextLife ==
    \/ StartCall
    \/ StopCall
    \/ ShutdownNext
    \/ LoopStops
    \/ ClearFlag
    \/ OpNext
    \/ wait_shutdown
    \/ WaitReturns
    \/ WaitTimesOut

\* the server is started and stopped
SpecLife == Init /\ [][NextLife]_vars

\* the teardown thread, the event loop and the threads that wait are
\* scheduled; an operator that was executed runs to its end (its wait is of
\* 3 seconds); Blender runs a due timer whenever the main thread is between
\* operators; nobody is bound to call start or stop
LifeFairness ==
    /\ WF_vars(ShutdownNext)
    /\ WF_vars(LoopStops)
    /\ WF_vars(OpWaitReturns \/ OpWaitTimeout)
    /\ WF_vars(OpStart)
    /\ SF_vars(ClearFlag)
    /\ WF_vars(WaitReturns)
    /\ WF_vars(WaitTimesOut)

SpecLifeFair == Init /\ [][NextLife]_vars /\ LifeFairness

-----------------------------------------------------------------------------
(* What the event loop of the server does while the server is stopped       *)

\* the "MCP-Server" thread is still in loop.run_forever()
LoopRuns == server_thread \in {"alive", "stopping"}

\* GET /sse is accepted by a server that is up and not shutting down
SrvOpenStream(s) == _server_loop # "None" /\ ~_shutting_down /\ LoopRuns /\ OpenStream(s)

\* a generator is cancelled, or its client goes away, while the loop runs
SrvCloseStream(s) == LoopRuns /\ CloseStream(s)

\* a resources/read that was let in goes on while the loop runs
SrvResRegister(j) == LoopRuns /\ ResRegister(j)
SrvResSchedule(j) == LoopRuns /\ ResSchedule(j)

NextShutdown ==
    \/ StartCall
    \/ StopCall
    \/ ShutdownNext
    \/ LoopStops
    \/ ClearFlag
    \/ \E s \in Sessions : SrvOpenStream(s)
    \/ \E s \in Sessions : SrvCloseStream(s)
    \/ \E j \in JobIds : SrvResRegister(j)
    \/ \E j \in JobIds : SrvResSchedule(j)

\* the server is stopped while streams are open and resources are being read
SpecShutdown == Init /\ [][NextShutdown]_vars

-----------------------------------------------------------------------------
(* The middleware stack of create_asgi_app: ShutdownMiddleware, AuthMiddleware *)

\* the tokens a client may send; "secret" is the one the preferences may hold
TokenValues == {"", "secret", "wrong"}

\* request.headers.get("Authorization"): absent, or a scheme and what follows it
NoHeader == [scheme |-> "none", token |-> ""]
Headers == {NoHeader} \cup [scheme : {"Bearer", "Basic"}, token : TokenValues]

Routes == {"/health", "/sse", "/http"}

\* a request: its path, its Authorization header, its query parameter "token"
Requests == [route : Routes, header : Headers, query : TokenValues]

\* status_code=503, code -32000, headers={"Retry-After": "5"}
Unavailable ==
    [status |-> 503, code |-> -32000, retry_after |-> 5, auth |-> FALSE, dispatched |-> FALSE]

\* status_code=401, code -32001
Unauthorized ==
    [status |-> 401, code |-> -32001, retry_after |-> 0, auth |-> TRUE, dispatched |-> FALSE]

\* call_next(request): the endpoint of the route answers
Served ==
    [status |-> 200, code |-> 0, retry_after |-> 0, auth |-> TRUE, dispatched |-> TRUE]

\* a plausible slip: any Bearer token is accepted
BearerOk_AnyToken(auth_token, h) == h.scheme = "Bearer" /\ h.token # ""

\* auth_header.startswith("Bearer "); token = auth_header[7:].strip();
\* token and secrets.compare_digest(token, self.auth_token)
BearerOk(auth_token, h) == h.scheme = "Bearer" /\ h.token # "" /\ h.token = auth_token

\* a plausible slip: the query parameter is compared in network mode too
QueryOk_InNetwork(cfg, q) == q # "" /\ q = cfg.auth_token

\* query_token = request.query_params.get("token"): rejected outright when
\* network_access, otherwise compared with the configured token
QueryOk(cfg, q) == q # "" /\ ~cfg.network_access /\ q = cfg.auth_token

\* AuthMiddleware.dispatch
AuthMiddleware(cfg, request) ==
    IF request.route = "/health" THEN Served
    ELSE IF ~cfg.auth_required THEN Served
    ELSE IF cfg.auth_token = "" THEN Served
    ELSE IF BearerOk(cfg.auth_token, request.header) THEN Served
    ELSE IF QueryOk(cfg, request.query) THEN Served
    ELSE Unauthorized

\* a plausible slip: the shutdown check sits behind the authentication
ShutdownMiddleware_AfterAuth(flag, cfg, request) ==
    IF AuthMiddleware(cfg, request).dispatched /\ flag THEN Unavailable
    ELSE AuthMiddleware(cfg, request)

\* ShutdownMiddleware.dispatch, with RequestLoggingMiddleware, StatsMiddleware
\* and AuthMiddleware behind it
ShutdownMiddleware(flag, cfg, request) ==
    IF flag THEN Unavailable ELSE AuthMiddleware(cfg, request)

\* a request arrives at the application while its loop runs
HttpRequest ==
    /\ LoopRuns
    /\ \E request \in Requests :
         http' = [request |-> request, during |-> _shutting_down,
                  response |-> ShutdownMiddleware(_shutting_down, config, request)]
    /\ UNCHANGED <<jobVars, netVars, _server_loop, _shutting_down, _shutdown_complete,
                   _mcp_instance, shutdown_thread, server_thread, clear_flag, start_op,
                   lcall, config, waiter, bridge>>

NextHttp ==
    \/ StartCall
    \/ StopCall
    \/ ShutdownNext
    \/ LoopStops
    \/ ClearFlag
    \/ HttpRequest

\* requests arrive while the server is started and stopped
SpecHttp == Init /\ [][NextHttp]_vars

-----------------------------------------------------------------------------
(* The stdio bridge: forward_to_blender over the pooled connection          *)

\* MAX_RETRIES = 2  # Retry transient failures
MAX_RETRIES == 2

\* the retries a caller passes; range(retries + 1) is not empty
Retries == 0..MAX_RETRIES

\* the "id" of the forwarded message, 0 where message.get("id") is None
MessageIds == 0..MaxApiIds

\* except (http.client.HTTPException, ConnectionError, OSError)
TransientErrors == {"HTTPException", "ConnectionError", "OSError"}

\* the statuses of the server: a body, 204 for a notification, 401, 503
Statuses == {200, 204, 401, 503}

\* what the bytes of a response are to response_data.decode and json.loads
Payloads == {"json", "not_json", "not_utf8"}

\* conn.request(...); conn.getresponse(); response.read(): an exception of the
\* connection, another exception, or a response; an exception is raised
\* before the server has the request (connect, send) or after it has it
\* (getresponse, read, the socket timeout)
SendOutcomes ==
    {[raised |-> e, status |-> 0, payload |-> "none", delivered |-> d] :
        e \in TransientErrors \cup {"Exception"}, d \in BOOLEAN}
    \cup {[raised |-> "None", status |-> st, payload |-> p, delivered |-> TRUE] :
            st \in Statuses, p \in Payloads}

\* forward_to_blender's return value None
BridgeNone == [NoBody EXCEPT !.kind = "None"]

\* result = json.loads(response_data.decode("utf-8")): the server's own answer
BridgeResult(id) == [NoBody EXCEPT !.kind = "result", !.id = id]

\* the mutant of Retryable: every exception is retried
Retryable_All(cls) == TRUE

\* the first except clause of forward_to_blender, and the one of pool.request
Retryable(cls) == cls \in TransientErrors

\* what the try block raises when the pool has returned a response
Decoded(o) ==
    CASE o.status = 204 -> "None"
      [] o.status >= 400 -> "None"
      [] o.payload = "not_utf8" -> "UnicodeDecodeError"
      [] o.payload = "not_json" -> "JSONDecodeError"
      [] OTHER -> "None"

\* the body of one pass of the for loop after _connection_pool.request: b is
\* the bridge with the outcome o recorded, cls the exception of the try block
Handled(b, o, cls) ==
    IF cls = "None"
    THEN [b EXCEPT !.pc = "returned",
                   !.ret = IF o.status = 204 THEN BridgeNone
                           ELSE IF o.status >= 400 THEN ErrorBody(b.id, -32603)
                           ELSE BridgeResult(b.id)]
    ELSE IF Retryable(cls)
    THEN IF b.attempt < b.retries
         THEN [b EXCEPT !.pc = "sleep", !.last_error = cls,
                        !.waits = Append(@, b.attempt + 1)]
         ELSE [b EXCEPT !.pc = "returned", !.last_error = cls,
                        !.ret = ErrorBody(b.id, -32603)]
    ELSE IF cls = "JSONDecodeError"
    THEN [b EXCEPT !.pc = "returned", !.ret = ErrorBody(b.id, -32700)]
    ELSE [b EXCEPT !.pc = "returned", !.ret = ErrorBody(b.id, -32603)]

\* the exception the try block ends with, given what the pool gave
TryRaises(o) == IF o.raised # "None" THEN o.raised ELSE Decoded(o)

BridgeFrame ==
    UNCHANGED <<jobVars, netVars, _server_loop, _shutting_down, _shutdown_complete,
                _mcp_instance, shutdown_thread, server_thread, clear_flag, start_op,
                lcall, config, http, waiter>>

\* run_stdio_bridge: response = forward_to_blender(message, endpoint)
forward_to_blender ==
    /\ bridge.pc = "idle"
    /\ \E id \in MessageIds, retries \in Retries :
         bridge' = [NoBridge EXCEPT !.pc = "request", !.id = id, !.retries = retries,
                                    !.conn = bridge.conn]
    /\ BridgeFrame

\* HTTPConnectionPool.request, the try block: an exception of the connection
\* is caught there and the connection closed; everything else goes back to
\* forward_to_blender
PoolRequest ==
    /\ bridge.pc = "request"
    /\ \E o \in SendOutcomes :
         LET b == [bridge EXCEPT !.conn = "open", !.sends = @ + 1, !.outcome = o,
                                 !.received = @ + IF o.delivered THEN 1 ELSE 0] IN
           bridge' = IF Retryable(o.raised)
                     THEN [b EXCEPT !.pc = "reconnect", !.conn = "None"]
                     ELSE Handled(b, o, TryRaises(o))
    /\ BridgeFrame

\* HTTPConnectionPool.request, the except block: one new connection, the
\* request sent once more, and what that raises is raised
PoolReconnect ==
    /\ bridge.pc = "reconnect"
    /\ \E o \in SendOutcomes :
         LET b == [bridge EXCEPT !.conn = "open", !.sends = @ + 1, !.outcome = o,
                                 !.received = @ + IF o.delivered THEN 1 ELSE 0] IN
           bridge' = Handled(b, o, TryRaises(o))
    /\ BridgeFrame

\* time.sleep(wait_time); continue
Backoff ==
    /\ bridge.pc = "sleep"
    /\ bridge' = [bridge EXCEPT !.pc = "request", !.attempt = @ + 1]
    /\ BridgeFrame

\* run_stdio_bridge: if response is not None: print(response_json, flush=True);
\* a closed pipe (OSError) ends the loop over sys.stdin
WriteResponse ==
    /\ bridge.pc = "returned"
    /\ \/ bridge' = [bridge EXCEPT !.pc = "idle",
                                   !.stdout = IF bridge.ret = BridgeNone
                                              THEN NoBody ELSE bridge.ret]
       \/ /\ bridge.ret # BridgeNone
          /\ bridge' = [bridge EXCEPT !.pc = "exit"]
    /\ BridgeFrame

\* the steps of a call of forward_to_blender
BridgeStep ==
    \/ PoolRequest
    \/ PoolReconnect
    \/ Backoff

NextBridge ==
    \/ forward_to_blender
    \/ BridgeStep
    \/ WriteResponse

\* the bridge forwards one message after another; a send ends, with the
\* response or with the socket timeout of DEFAULT_TIMEOUT, and a sleep ends
SpecBridge == Init /\ [][NextBridge]_vars /\ WF_vars(BridgeStep)

-----------------------------------------------------------------------------
(* Properties *)

Terminal == {"success", "error", "cancelled"}

\* C1: of the set_success, set_error and mark_cancelled calls on a job only the
\* first takes effect: once a job's status is terminal, its status, result and
\* error never change again.
C1_FirstWriterWins ==
    [][\A j \in JobIds :
         (j \in DOMAIN rq /\ j \in DOMAIN rq' /\ rq[j].status \in Terminal)
         => /\ rq'[j].status = rq[j].status
            /\ rq'[j].result = rq[j].result
            /\ rq'[j].error = rq[j].error]_vars

NewlyPending(j) == j \notin PendingIds(pending) /\ j \in PendingIds(pending')

\* C2: the pending set never holds more than MAX_PENDING_OPERATIONS entries,
\* and registering a job while it holds that many leaves it holding that many.
C2_PendingNeverExceedsCapacity ==
    /\ [](Len(pending) <= MAX_PENDING_OPERATIONS)
    /\ [][\A j \in JobIds :
            (NewlyPending(j) /\ Len(pending) = MAX_PENDING_OPERATIONS)
            => Len(pending') = MAX_PENDING_OPERATIONS]_vars

\* a job was registered into a full set
C2_Witness ==
    /\ Len(pending) = MAX_PENDING_OPERATIONS
    /\ evicted # {}
    /\ \E j \in JobIds : pc[j] = "r_sched"

MinId(S) == CHOOSE m \in S : \A k \in S : m <= k

\* C3: a registration that overflows the pending set evicts exactly one entry,
\* the one inserted earliest among those present (job ids are issued in
\* insertion order), reports it cancelled and wakes it; every other entry
\* stays, and nothing is evicted otherwise.
C3_EvictsOldest ==
    [][/\ \A j \in JobIds :
            (NewlyPending(j) /\ Len(pending) >= MAX_PENDING_OPERATIONS)
            => LET old == MinId(PendingIds(pending)) IN
                 /\ PendingIds(pending') = (PendingIds(pending) \ {old}) \cup {j}
                 /\ evicted' = evicted \cup {old}
                 /\ old \in posted'
       /\ evicted' # evicted
            => \E j \in JobIds : NewlyPending(j) /\ Len(pending) >= MAX_PENDING_OPERATIONS
       /\ \A j \in JobIds :
            (NewlyPending(j) /\ Len(pending) < MAX_PENDING_OPERATIONS)
            => PendingIds(pending') = PendingIds(pending) \cup {j}]_vars

\* the oldest job was evicted while it waited, and every newer one is still pending
C3_Witness ==
    \E j \in evicted :
        /\ pc[j] = "r_wait"
        /\ Len(pending) = MAX_PENDING_OPERATIONS
        /\ \A k \in PendingIds(pending) : k > j /\ pc[k] = "r_wait"

\* C4: the caller of an evicted resource job finishes with the cancellation
\* error that names the capacity, never with a timeout or a result.
C4_EvictedCallerIsCancelled ==
    \A j \in evicted : pc[j] = "done" => out[j] = CancelledError

\* the main thread is about to take job j's own callback
HostTakesJob(j) ==
    /\ hostPc = "idle"
    /\ timers # <<>>
    /\ Head(timers).job = j
    /\ Head(timers).fn \in {"execute_in_main_thread", "run_on_main_thread"}

CancelledForHost(j) ==
    IF Head(timers).fn = "execute_in_main_thread"
    THEN is_cancelled(rq, j)
    ELSE _is_cancelled(pending, j)

\* C5: a job that is cancelled, or whose entry is gone, when the main thread
\* reaches its callback is skipped: the unit of work does not run, no result
\* is written, for tool calls and resource reads alike.
C5_CancelledJobIsSkipped ==
    [][\A j \in JobIds :
         (HostTakesJob(j) /\ CancelledForHost(j) /\ timers' = Tail(timers))
         => /\ work'[j] = work[j]
            /\ wm'[j] = wm[j]
            /\ rq' = rq
            /\ hostPc' = "idle"]_vars

WaitExpired(j) == pc[j] = "t_timedout" \/ out[j].kind = "timeout"

HostCompletes(j) == hostPc = "store" /\ hostJob = j /\ hostPc' = "idle"

\* C6: once the wait of execute_on_main_thread has expired the caller's outcome
\* is a timeout, and a set_success or set_error for that job from then on
\* neither changes its recorded status nor re-creates its entry.
C6_LateCompletionIsNoOp ==
    [][\A j \in JobIds :
         /\ (pc[j] = "t_timedout" /\ pc'[j] # "t_timedout") => out'[j].kind = "timeout"
         /\ out[j].kind = "timeout" => out'[j] = out[j]
         /\ (WaitExpired(j) /\ HostCompletes(j))
            => /\ (j \in DOMAIN rq') = (j \in DOMAIN rq)
               /\ j \in DOMAIN rq => rq'[j].status = rq[j].status]_vars

\* C7: a caller whose wait completed gets the outcome the main thread wrote
\* for its own job: its result on success, its error message on failure.
C7_CallerGetsWrittenOutcome ==
    \A j \in JobIds :
        (pc[j] \in {"t_finally", "done"} /\ out[j].kind \notin {"timeout", "schedule_failed"})
        => /\ work[j] # None
           /\ out[j] = Outcome(work[j].status, work[j])

\* two calls returned, one with its result and one with its error
C7_Witness ==
    \E j, k \in JobIds :
        /\ pc[j] = "done" /\ out[j] = Outcome("success", OpSuccess(j))
        /\ pc[k] = "done" /\ out[k] = Outcome("error", OpError(k))

\* C8: when the timer for a job cannot be registered, the call ends in that
\* same step, without waiting, with a scheduling error that is not a timeout,
\* and the job is in neither the result queue nor the pending set.
C8_ScheduleFailureIsImmediate ==
    [][\A j \in JobIds :
         (pc[j] \in {"t_sched", "r_sched"} /\ pc'[j] # pc[j] /\ timers' = timers)
         => /\ pc'[j] = "done"
            /\ out'[j].kind = "schedule_failed"
            /\ j \notin DOMAIN rq'
            /\ j \notin PendingIds(pending')]_vars

\* a tool call and a resource read have both failed to schedule
C8_Witness ==
    \E j, k \in JobIds :
        /\ pc[j] = "done" /\ out[j] = Outcome("schedule_failed", FailedToSchedule)
        /\ pc[k] = "done" /\ out[k] = Outcome("schedule_failed", TimerException)

\* C9: register for an id that is already registered is reported as an error
\* and leaves the existing entry as it was.
C9_SecondRegisterIsError ==
    [][\A j \in ApiIds :
         (call'.op = "register" /\ call'.id = j /\ j \in DOMAIN rq)
         => /\ call'.ret = "error"
            /\ rq' = rq]_vars

\* C10: cleanup and _unregister_pending raise nothing, remove the named job
\* only, and change nothing when the job is not there (a second call, or an id
\* never registered).
C10_RemovalIsIdempotent ==
    [][\A j \in ApiIds :
         /\ (call'.op = "cleanup" /\ call'.id = j)
            => /\ call'.ret \in {"True", "False"}
               /\ DOMAIN rq' = (DOMAIN rq) \ {j}
               /\ \A k \in DOMAIN rq' : rq'[k] = rq[k]
               /\ pending' = pending
         /\ (call'.op = "_unregister_pending" /\ call'.id = j)
            => /\ call'.ret = "None"
               /\ pending' = SelectSeq(pending, LAMBDA e : e.id # j)
               /\ rq' = rq]_vars

\* cleanup was called for a job that is not in the queue while another job is
C10_Witness ==
    /\ call.op = "cleanup"
    /\ call.ret = "False"
    /\ DOMAIN rq # {}
    /\ pending # <<>>

-----------------------------------------------------------------------------
(* Admission control *)

\* job j's own callback is registered with the main thread, or is running there
OnHost(j) ==
    \/ hostJob = j
    \/ \E i \in 1..Len(timers) :
         /\ timers[i].job = j
         /\ timers[i].fn \in {"execute_in_main_thread", "run_on_main_thread"}

\* the caller of j has given up on it, or j was evicted
Abandoned(j) == pc[j] \in {"t_timedout", "t_finally", "done"} \/ j \in evicted

\* C11: a job of either kind that is scheduled on the main thread and neither
\* finished nor abandoned is in the pending set, so there are at most
\* MAX_PENDING_OPERATIONS such jobs at any time.
C11_HostJobsWithinCapacity ==
    LET inFlight == {j \in JobIds : OnHost(j) /\ ~Abandoned(j)} IN
        /\ \A j \in inFlight : j \in PendingIds(pending)
        /\ Cardinality(inFlight) <= MAX_PENDING_OPERATIONS

\* C12: a job is evicted from the pending set only before the main thread has
\* started its unit of work: eviction never cancels a job that has started or
\* has completed.
C12_EvictionSparesStartedJobs ==
    [][\A j \in JobIds :
         (j \in evicted' /\ j \notin evicted) => (work[j] = None /\ hostJob # j)]_vars

-----------------------------------------------------------------------------
(* The SSE queue *)

\* the pushes so far that the caller of popleft has neither been given nor
\* been told were dropped
Unreported ==
    (nextMsg - 1) - Len(stream[1].sent) - Len(sseq[1].messages) - stream[1].dropped

\* C13: the buffer holds at most SSE_QUEUE_SIZE messages, and they are the most
\* recent pushes, in push order; an append to a full buffer removes the oldest
\* message only, puts the new one last, adds one to the drop counter and
\* returns False; an append to a buffer that is not full removes nothing,
\* leaves the counter and returns True; popleft gives the oldest message.
C13_BufferKeepsMostRecent ==
    /\ [](LET ms == sseq[1].messages IN
            /\ Len(ms) <= SSE_QUEUE_SIZE
            /\ \A i \in 1..Len(ms) : ms[i] = Msg(nextMsg - Len(ms) + i - 1))
    /\ [][LET q == sseq[1]
              q2 == sseq'[1]
          IN /\ nextMsg' # nextMsg
                => IF Len(q.messages) = SSE_QUEUE_SIZE
                   THEN /\ q2.messages = Append(Tail(q.messages), Msg(nextMsg))
                        /\ q2.dropped_count = q.dropped_count + 1
                        /\ qcall'.ret = False
                   ELSE /\ q2.messages = Append(q.messages, Msg(nextMsg))
                        /\ q2.dropped_count = q.dropped_count
                        /\ qcall'.ret = True
             /\ (qcall'.op = "popleft" /\ q.messages # <<>> /\ q2 # q)
                => /\ qcall'.ret = Head(q.messages)
                   /\ q2.messages = Tail(q.messages)]_vars

\* an append has just dropped a message, after some message had been popped
C13_Witness ==
    /\ qcall.op = "append"
    /\ qcall.ret = False
    /\ Len(sseq[1].messages) = SSE_QUEUE_SIZE
    /\ stream[1].sent # <<>>

\* C14: get_drop_notification gives a warning exactly when a message was
\* dropped since the last warning, its count is the number dropped since then,
\* and after a poll no drop is left unreported: the counts of the warnings add
\* up to the pushes that are neither buffered nor popped.
C14_DropsReportedOnce ==
    /\ [](qcall.op = "get_drop_notification" => Unreported = 0)
    /\ [][qcall'.op = "get_drop_notification"
          => qcall'.ret = IF Unreported > 0 THEN Warning(Unreported) ELSE NoMessage]_vars

\* MaxMsgs messages pushed into the empty queue and none popped: one warning
\* counts them all
C14_Witness ==
    /\ qcall.op = "get_drop_notification"
    /\ qcall.ret = Warning(MaxMsgs - SSE_QUEUE_SIZE)
    /\ stream[1].sent = <<>>
    /\ nextMsg = MaxMsgs + 1

InBuffer(s, n) == \E i \in 1..Len(sseq[s].messages) : sseq[s].messages[i] = Msg(n)

Emitted(s, n) == \E i \in 1..Len(stream[s].sent) : stream[s].sent[i] = n

\* C15: every push sets the wake event; a generator never waits on a cleared
\* event while its buffer holds a message; a message leaves the buffer only by
\* being emitted or by a later push; a timed-out wait emits a ping and the
\* stream stays open; and every buffered message is in the end emitted,
\* evicted by a later push, or its stream is closed.
C15_NoLostWakeup ==
    /\ [][\A s \in Sessions :
            (nextMsg' # nextMsg /\ sseq'[s] # sseq[s]) => sseq'[s].event]_vars
    /\ [](\A s \in Sessions :
            (gen[s] = "wait" /\ sseq[s].messages # <<>>) => sseq[s].event)
    /\ [][\A s \in Sessions : \A n \in 1..MaxMsgs :
            (InBuffer(s, n) /\ ~InBuffer(s, n)')
            => (Emitted(s, n)' \/ nextMsg' # nextMsg)]_vars
    /\ [][\A s \in Sessions :
            (gen[s] = "wait" /\ gen'[s] \notin {"wait", "clear", "closed"})
            => (stream'[s].last = "ping" /\ gen'[s] = "top")]_vars
    /\ \A s \in Sessions : \A n \in 1..MaxMsgs :
            InBuffer(s, n) ~> (~InBuffer(s, n) \/ gen[s] = "closed")

\* a message was pushed between the end of a wait and the clearing of the
\* event, on a stream that has already emitted one
C15_Witness ==
    \E s \in Sessions :
        /\ gen[s] = "clear"
        /\ sseq[s].messages # <<>>
        /\ stream[s].sent # <<>>

\* C16: the sweep removes no session whose stream is open: a session leaves
\* the session map only when its event_generator ends.
C16_SweepSparesOpenStreams ==
    [][\A s \in Sessions :
         (s \in sse_queues /\ s \notin sse_queues') => gen'[s] = "closed"]_vars

-----------------------------------------------------------------------------
(* The endpoints *)

\* the JSON-RPC response to message r, wherever it went
Resp(r) == IF req[r].http.status = 202 THEN req[r].queued ELSE req[r].http.body

\* C17: a POST to /sse is answered with 202 and an empty body exactly when its
\* session token names a session in the session map at that moment; in every
\* other case (no token, a token never issued, a session closed or swept) the
\* call itself returns the JSON-RPC response.
C17_StreamModeOnlyForLiveSession ==
    /\ [][\A r \in ReqIds :
            (req[r].pc = "new" /\ req'[r].pc # "new")
            => /\ (req'[r].http = HttpResponse(202, NoBody)) = (req'[r].token \in sse_queues)
               /\ (req'[r].pc = "bg") = (req'[r].token \in sse_queues)
               /\ (req'[r].pc = "sync") = (req'[r].token \notin sse_queues)]_vars
    /\ [](\A r \in ReqIds :
            req[r].pc = "done"
            => \/ req[r].http = HttpResponse(202, NoBody)
               \/ /\ req[r].http.status = 200
                  /\ req[r].http.body.kind \in {"result", "error"}
                  /\ req[r].queued = NoBody)

\* one message named a session that was swept while its stream was open and
\* got its response in the POST body; another got 202 and its response queued
C17_Witness ==
    \E r, k \in ReqIds :
        /\ req[r].pc = "done" /\ req[r].token \in Sessions
        /\ gen[req[r].token] = "top" /\ req[r].token \notin sse_queues
        /\ req[r].http.status = 200 /\ req[r].http.body.kind = "result"
        /\ req[k].pc = "done" /\ req[k].http.status = 202 /\ req[k].queued # NoBody

\* C18: a message without an id never gets a response body: none in the HTTP
\* response of /http or of /sse, and none on a session's queue.
C18_NotificationHasNoBody ==
    \A r \in ReqIds :
        (req[r].pc = "done" /\ req[r].id = 0 /\ req[r].method # "None")
        => (req[r].http.body = NoBody /\ req[r].queued = NoBody)

\* C19: a request whose method is not in METHOD_HANDLERS is answered, on /http
\* and on /sse, with a JSON-RPC error of code -32601.
C19_UnknownMethodIs32601 ==
    \A r \in ReqIds :
        (/\ req[r].pc = "done"
         /\ req[r].id # 0
         /\ req[r].method = "not/a/method"
         /\ Resp(r) # NoBody)
        => (Resp(r).kind = "error" /\ Resp(r).code = -32601)

\* C20: a tools/call request with a non-empty tool name gets a result, with
\* isError true exactly when the execution failed (the tool raised, timed out,
\* could not be scheduled, or is not registered); a tools/call request gets a
\* JSON-RPC error only for a missing or empty name.
C20_ToolFailureIsResult ==
    \A r \in ReqIds :
        (/\ req[r].pc = "done"
         /\ req[r].id # 0
         /\ req[r].method = "tools/call"
         /\ Resp(r) # NoBody)
        => IF req[r].name = ""
           THEN Resp(r).kind = "error"
           ELSE /\ Resp(r).kind = "result"
                /\ Resp(r).isError = (req[r].exec # "success")

\* a tool call that timed out was answered on /http, and a call of a tool that
\* is not registered was answered on a stream, both with isError
C20_Witness ==
    \E r, k \in ReqIds :
        /\ req[r].pc = "done" /\ req[r].surface = "http" /\ req[r].exec = "timeout"
        /\ req[r].http.body.kind = "result" /\ req[r].http.body.isError
        /\ req[k].pc = "done" /\ req[k].http.status = 202 /\ req[k].exec = "not_found"
        /\ req[k].queued.kind = "result" /\ req[k].queued.isError

-----------------------------------------------------------------------------
\* C21: no exception leaves the transport: whatever body is POSTed to /http or
\* to /sse, the endpoint answers with no content (204, 202) or with a JSON-RPC
\* response that holds exactly one of result and error.
JsonRpcBody(b) == b.kind \in {"result", "error"}

C21_NothingEscapesTransport ==
    \A r \in ReqIds :
        req[r].pc = "done" =>
            \/ req[r].http.status \in {202, 204} /\ req[r].http.body = NoBody
            \/ JsonRpcBody(req[r].http.body)

-----------------------------------------------------------------------------
\* the fields of ServerManager that make up the lifecycle
LifecycleState ==
    <<_server_loop, _shutting_down, _shutdown_complete, _mcp_instance, shutdown_thread,
      server_thread, clear_flag>>

\* the graceful_shutdown thread is running
TeardownRunning ==
    shutdown_thread \in {"cancel", "join", "force", "finally", "reset", "complete", "register"}

\* a call of stop() returns
StopReturns == lcall' # lcall /\ lcall'.op = "stop"

-----------------------------------------------------------------------------
\* C25: while a shutdown is in progress no start brings up a server: there is
\* no server loop as long as the teardown runs, start() returns False for that
\* reason, and the operator that waited in vain returns CANCELLED having
\* started nothing.
C25_NoStartDuringTeardown ==
    /\ [](TeardownRunning => _server_loop = "None")
    /\ [][(TeardownRunning /\ lcall' # lcall /\ lcall'.op = "start") =>
             (lcall'.why = "shutting_down" /\ UNCHANGED <<_server_loop, server_thread>>)]_vars
    /\ [][(start_op.pc = "wait" /\ start_op'.pc = "idle") =>
             (start_op'.ret = "CANCELLED" /\ UNCHANGED <<_server_loop, server_thread>>)]_vars

\* start() was called during a teardown and refused; the operator gave up
\* after its wait
C25_Witness ==
    /\ TeardownRunning
    /\ lcall = LCall("start", FALSE, "shutting_down")
    /\ start_op.ret = "CANCELLED"
    /\ start_op.why = "wait_timeout"

-----------------------------------------------------------------------------
\* C26: once wait_shutdown has returned True to the start operator, the
\* start() it goes on to call is not refused for "still shutting down".
C26_StartAfterCompleteProceeds ==
    ~(start_op.pc = "idle" /\ start_op.waited /\ start_op.why = "shutting_down")

-----------------------------------------------------------------------------
\* graceful_shutdown has set _shutdown_complete and no server has been started since
ShutdownReported == shutdown_thread \in {"register", "done"} /\ _server_loop = "None"

\* C23: when shutdown is reported complete, and for as long as the server
\* stays stopped, the pending set is empty, the session map is empty and the
\* MCP instance with its caches is reset.
C23_StoppedMeansEmpty ==
    ShutdownReported =>
        /\ pending = <<>>
        /\ sse_queues = {}
        /\ _mcp_instance = "None"

-----------------------------------------------------------------------------
-----------------------------------------------------------------------------
\* the request carries the configured token, in its header or in its query
Presented(cfg, request) == request.header.token = cfg.auth_token \/ request.query = cfg.auth_token

\* the request got past the shutdown check of a server that requires a token
Authenticating ==
    /\ http.request # NoRequest
    /\ ~http.during
    /\ config.auth_required
    /\ config.auth_token # ""

-----------------------------------------------------------------------------
\* the only right credential of the request is its query parameter
OnlyQueryToken(cfg, request) ==
    /\ request.route # "/health"
    /\ request.query = cfg.auth_token
    /\ ~(request.header.scheme = "Bearer" /\ request.header.token = cfg.auth_token)

C27_DefaultWaitReturns ==
    (waiter.pc = "waiting" /\ ~waiter.given) ~> (waiter.pc = "idle")

\* the waits of a call grow from one sleep to the next
Increasing(w) == \A i, k \in 1..Len(w) : i < k => w[i] < w[k]

\* forward_to_blender is between its call and its return
Forwarding == bridge.pc \in {"request", "reconnect", "sleep"}

Notification == bridge.id = 0

\* C31: the bridge writes nothing to standard output for a notification,
\* whatever the server answered and whether or not it could be reached
C31_NotificationIsSilent ==
    [][(Notification /\ bridge.pc = "returned" /\ bridge'.pc = "idle")
          => bridge'.stdout = NoBody]_vars

\* C40: the server receives a forwarded line at most once
C40_DeliveredAtMostOnce == bridge.received <= 1

\* C32: a job for which execute_on_main_thread raised TimeoutError has not been
\* run by the main thread and is never run: its unit of work stays undone
C32_TimedOutJobNeverRuns ==
    \A j \in JobIds : out[j].kind = "timeout" => work[j] = None

\* C38: a resource request whose timer cannot be registered leaves the pending
\* set as it found it: its own entry is gone and the entries that were there
\* are all still there, not evicted and not cancelled
C38_FailedScheduleLeavesPending ==
    [][\A j \in JobIds :
         (pc[j] = "r_sched" /\ out'[j].kind = "schedule_failed")
         => pending' = before]_vars

\* the caller of job j has returned or raised
Finished(j) == pc[j] = "done"

\* the mcp_resource_* properties of job j are on the window manager
SlotsLeft(j) == wm[j] # NoProps

\* C35: the properties a resource job leaves on the window manager are
\* removed in the end, however its caller finished, while the main thread
\* keeps running its timers
C35_SlotsAreRemoved ==
    \A j \in JobIds : (Finished(j) /\ SlotsLeft(j)) ~> ~SlotsLeft(j)

\* C37: a job whose call has returned or raised is in neither the result
\* queue nor the pending set, then and ever after
C37_NoBookkeepingLeft ==
    \A j \in JobIds :
        Finished(j) => (j \notin DOMAIN rq /\ j \notin PendingIds(pending))

\* a tool call timed out and a read was cancelled, and the main thread ran the
\* work of both and stored what it had for them
C37_Witness ==
    \E j, k \in JobIds :
        /\ Finished(j) /\ out[j].kind = "timeout" /\ work[j] # None
        /\ Finished(k) /\ out[k].kind = "task_cancelled" /\ work[k] # None
        /\ hostPc = "idle"
        /\ timers = <<>>

\* stop() has cleared the event and graceful_shutdown has not yet set it
ShutdownInProgress ==
    shutdown_thread \in {"cancel", "join", "force", "finally", "reset", "complete"}

\* C34: _shutdown_complete is cleared exactly while a shutdown is in progress,
\* and set in every other state, that of a manager never started included
C34_CompleteUnlessShuttingDown == _shutdown_complete <=> ~ShutdownInProgress

\* C33: a teardown that stop() started runs to its end: the event is set and
\* the flag is False again, whether the server thread had to be stopped by
\* force, a step of the teardown raised or the tasks ignored their cancellation
C33_ShutdownRunsToEnd ==
    TeardownRunning ~> (~TeardownRunning /\ _shutdown_complete /\ ~_shutting_down)

\* stop() returned True, a step of the teardown raised before the server
\* thread was stopped, and the shutdown is complete with the flag cleared
C33_Witness ==
    /\ lcall = LCall("stop", TRUE, "initiated")
    /\ shutdown_thread = "done"
    /\ server_thread = "alive"
    /\ _shutdown_complete
    /\ ~_shutting_down
    /\ ~clear_flag

\* the configuration leaves the server open to the network without a token
OpenToNetwork(cfg) ==
    cfg.network_access /\ ~(cfg.auth_required /\ cfg.auth_token # "")

\* C36: start() creates a server, and returns True, only with a configuration
\* that is not open to the network without a required, non-empty token; the
\* configuration of every server that was created is such a one
C36_NoOpenNetworkServer ==
    /\ [](~OpenToNetwork(config))
    /\ [][((lcall' # lcall /\ lcall'.op = "start" /\ lcall'.ret)
             \/ (server_thread # "alive" /\ server_thread' = "alive"))
            => ~OpenToNetwork(config')]_vars

\* a server bound for network access is up, with its required token
C36_Witness ==
    /\ _server_loop # "None"
    /\ server_thread = "alive"
    /\ lcall = LCall("start", TRUE, "started")
    /\ config.network_access
    /\ config.auth_required
    /\ config.auth_token # ""

-----------------------------------------------------------------------------
(* Routing of a stream-mode response                                        *)

\* how many times the response numbered n lies on the sequence ms
Occurrences(ms, n) == Cardinality({i \in 1..Len(ms) : ms[i] = Msg(n)})

\* process_and_queue of request r finishes in this step
Completes(r) == req[r].pc = "bg" /\ req'[r].pc = "done"

\* C39: the response to a message accepted in stream mode for session S goes
\* to the queue of S only and at most once: the step that finishes the handler
\* changes no other session's queue and adds no key to the session map; with S
\* still in the map the response lies once on S's queue, with S gone it is
\* dropped, the handler ends normally and no queue is touched.
C39_ResponseOnlyToOwnSession ==
    /\ [][\A r \in ReqIds :
            Completes(r)
            => /\ sse_queues' = sse_queues
               /\ \A s \in Sessions : s # req[r].token => sseq'[s] = sseq[s]
               /\ IF req[r].token \in sse_queues
                  THEN /\ req'[r].built # 0
                       /\ Occurrences(sseq'[req[r].token].messages, req'[r].built) = 1
                       /\ Occurrences(sseq[req[r].token].messages, req'[r].built) = 0
                  ELSE /\ sseq' = sseq
                       /\ req'[r].built = 0
                       /\ req'[r].queued = NoBody]_vars
    /\ [](\A r \in ReqIds : \A s \in Sessions :
            req[r].built # 0
            => Occurrences(sseq[s].messages, req[r].built)
                 <= IF s = req[r].token THEN 1 ELSE 0)
    /\ [](\A r, k \in ReqIds : (r # k /\ req[r].built # 0) => req[r].built # req[k].built)

\* one message was accepted with 202 for a session that closed before its
\* handler finished: the handler ran and the response went nowhere; another
\* message's response lies on its own session's queue
C39_Witness ==
    \E r, k \in ReqIds :
        /\ req[r].pc = "done" /\ req[r].http = HttpResponse(202, NoBody)
        /\ req[r].token \in Sessions /\ gen[req[r].token] = "closed"
        /\ req[r].token \notin sse_queues
        /\ req[r].exec # "none" /\ req[r].built = 0 /\ req[r].queued = NoBody
        /\ req[k].pc = "done" /\ req[k].built # 0 /\ req[k].token # req[r].token
        /\ req[k].token \in sse_queues
        /\ Occurrences(sseq[req[k].token].messages, req[k].built) = 1

=============================================================================
